---- MODULE Spec2Model ----
(***************************************************************************)
(* A model of the photo gallery server: the store pipeline                 *)
(* (storeImageFromBuffer), the upload and fixture-seeding endpoints, the   *)
(* gallery listing with its date resolver, and the two file-serving        *)
(* endpoints.                                                              *)
(*                                                                         *)
(* The filesystem is the only shared state: the originals directory        *)
(* PHOTO_DIR and the thumbnails directory THUMBS_DIR, each a finite map    *)
(* from file name to the file's bytes and modification time.               *)
(*                                                                         *)
(* File names are sequences of tokens: a stem followed by its dot          *)
(* extensions, so "f.thumb.jpg" is <<"f", ".thumb", ".jpg">>.  Buffers are  *)
(* sequences of bytes.  The image library (sharp) and the EXIF parser are  *)
(* external: what they answer for a given buffer is a fixed table over the *)
(* buffers of the model.                                                   *)
(*                                                                         *)
(* Environment: PHOTO_DIR and THUMBS_DIR are created at start-up and       *)
(* PHOTO_DIR stays listable; listing THUMBS_DIR, opening a file and stat   *)
(* may fail.  A write of an original may fail (the handler's try/catch),   *)
(* and a failed write leaves the directory as it was.  The rate limiter    *)
(* and multer run before the handlers and are not modelled.                *)
(***************************************************************************)
EXTENDS Integers, Sequences, FiniteSets, TLC

(***************************************************************************)
(* Bounds of the model.                                                    *)
(***************************************************************************)
\* the clock counts tenths of a second, from 1 to MaxClock
MaxClock == 2
\* the number of values crypto.randomBytes(6) can take
NumRandom == 2
\* the largest number of files in one upload request
MaxFiles == 2
\* the number of requests in one behaviour
MaxRequests == 2
\* multi-file uploads are among the first MaxUploads requests of a behaviour
MaxUploads == 1
\* the largest number of files whose open or stat fails during one listing
MaxFaults == 1

(***************************************************************************)
(* File names.                                                             *)
(***************************************************************************)
NoName == << >>

\* String.prototype.toLowerCase on an extension token
toLowerCase(ext) ==
    CASE ext = ".PNG" -> ".png"
      [] ext = ".JPG" -> ".jpg"
      [] OTHER -> ext

\* path.extname: the last dot extension of the name, "" when it has none
extname(name) ==
    IF Len(name) >= 2 THEN name[Len(name)] ELSE ""

\* path.basename(name, ext): the name without its suffix ext (compared
\* case-sensitively); the whole name when it does not end in ext
basename(name, ext) ==
    IF ext # "" /\ Len(name) >= 2 /\ name[Len(name)] = ext
    THEN SubSeq(name, 1, Len(name) - 1)
    ELSE name

VALID_EXTENSIONS == {".jpg", ".jpeg", ".png", ".gif", ".webp"}

\* the string made of a sequence of characters
RECURSIVE join(_)
join(chars) == IF chars = << >> THEN "" ELSE Head(chars) \o join(Tail(chars))

\* String.prototype.substring(from, to)
substring(chars, from, to) == SubSeq(chars, from + 1, to)

\* Buffer.prototype.toString('hex'): two digits for every byte
HexDigits == <<"0", "1", "2", "3", "4", "5", "6", "7", "8", "9", "a", "b", "c", "d", "e", "f">>
toHex(bytes) ==
    [i \in 1..(2 * Len(bytes)) |->
        IF i % 2 = 1 THEN HexDigits[(bytes[(i + 1) \div 2] \div 16) + 1]
        ELSE HexDigits[(bytes[i \div 2] % 16) + 1]]

\* crypto.randomBytes(6), the r-th value of the source
randomBytes(r) == <<171, 205, 239, 18, 52, r>>

\* crypto.randomBytes(6).toString('hex') for the r-th value of the source
randomPart(r) == join(toHex(randomBytes(r)))

\* new Date().toISOString().replace(/[-:.TZ]/g, ''): the characters of
\* 2025-01-01T12:34:56.t00Z that are left, the clock value t being the tenths
\* of the second
compactISO(t) ==
    <<"2", "0", "2", "5", "0", "1", "0", "1", "1", "2", "3", "4", "5", "6", ToString(t), "0", "0">>

\* the same string with only the digits of the date and the time of day
wholeSeconds(t) == join(substring(compactISO(t), 0, 14))

\* new Date().toISOString() with -:.TZ removed, cut to 15 characters: the
\* fourteen digits of the date and time and the first digit of the
\* milliseconds
timestamp(t) == join(substring(compactISO(t), 0, 15))

\* the modification time (mtimeMs) of a file written at clock value t
mtimeMs(t) == 1000 + t * 100

generateFilename(ext, t, r) ==
    <<timestamp(t) \o "_" \o randomPart(r), ext>>

\* a thumbnail name of the legacy pattern
thumbNameLegacy(base) == base \o <<".jpg">>

\* `${base}.thumb.jpg`
thumbNameOf(base) == base \o <<".thumb", ".jpg">>

\* `${base}.jpg`, the legacy thumbnail name
legacyThumbNameOf(base) == base \o <<".jpg">>

(***************************************************************************)
(* Buffers.                                                                *)
(***************************************************************************)
\* a value that is not a Buffer (undefined)
NotABuffer == <<-1>>

PngHeader == <<137, 80, 78, 71, 13, 10, 26, 10, 0, 0, 0, 13>>
JpegHeader == <<255, 216, 255, 224, 0, 16, 74, 70, 73, 70, 0, 1>>

\* the 1x1 PNG of tests/basic.test.js and the three fixtures; the last
\* element stands for the bytes after the first twelve
PngImage == PngHeader \o <<1>>
FixtureRed == PngHeader \o <<11>>
FixtureGreen == PngHeader \o <<12>>
FixtureBlue == PngHeader \o <<13>>
\* a JPEG photograph carrying EXIF capture dates
JpegImage == JpegHeader \o <<2>>
\* a JPEG photograph whose EXIF segment lies behind the first 64 KB
JpegLateExif == JpegHeader \o <<4>>
\* the PNG signature followed by bytes no decoder accepts
CorruptPng == <<137, 80, 78, 71, 13, 10, 26, 10, 9, 9, 9, 9, 3>>
\* "hello world!!", a text file
TextFile == <<104, 101, 108, 108, 111, 32, 119, 111, 114, 108, 100, 33, 33>>
\* the eight bytes of the PNG signature and nothing else
ShortPng == <<137, 80, 78, 71, 13, 10, 26, 10>>

\* the first twelve bytes of a GIF of either version and of a WebP file
Gif87aHeader == <<71, 73, 70, 56, 55, 97, 1, 0, 1, 0, 0, 0>>
Gif89aHeader == <<71, 73, 70, 56, 57, 97, 1, 0, 1, 0, 0, 0>>
WebpHeader == <<82, 73, 70, 70, 36, 0, 0, 0, 87, 69, 66, 80>>

IsBuffer(b) == b # NotABuffer

\* buffer.slice(from, to).toString('ascii'): the bytes with the high bit cleared
asciiSlice(buffer, from, to) ==
    [i \in 1..(to - from) |-> buffer[from + i] % 128]

\* a check no buffer passes
rejectsEveryBuffer(buffer) == FALSE

isValidImageMagic(buffer) ==
    IF ~IsBuffer(buffer) \/ Len(buffer) < 12 THEN FALSE
    ELSE IF buffer[1] = 255 /\ buffer[2] = 216 /\ buffer[3] = 255 THEN TRUE
    ELSE IF buffer[1] = 137 /\ buffer[2] = 80 /\ buffer[3] = 78 /\ buffer[4] = 71 THEN TRUE
    ELSE IF asciiSlice(buffer, 0, 6) \in {<<71, 73, 70, 56, 55, 97>>, <<71, 73, 70, 56, 57, 97>>} THEN TRUE
    ELSE IF /\ asciiSlice(buffer, 0, 4) = <<82, 73, 70, 70>>
            /\ asciiSlice(buffer, 8, 12) = <<87, 69, 66, 80>> THEN TRUE
    ELSE FALSE

(***************************************************************************)
(* The image library.                                                      *)
(***************************************************************************)
\* the buffers sharp can decode
SharpDecodes(buffer) ==
    buffer \in {PngImage, FixtureRed, FixtureGreen, FixtureBlue, JpegImage, JpegLateExif}

\* sharp(input).resize({ width: 450 }).jpeg({ quality: 80 }): the bytes of
\* the thumbnail, a JPEG made from the input
SharpThumbnail(buffer) == <<255, 216, 255, 219>> \o buffer

(***************************************************************************)
(* The directories.                                                        *)
(***************************************************************************)
EmptyDir == [n \in {} |-> [bytes |-> << >>, mtime |-> 0]]

\* fsp.stat(path).isFile()
\* a check that never finds the file
fileNeverExists(dir, name) == FALSE

fileExists(dir, name) == name \in DOMAIN dir

\* fsp.writeFile / sharp's toFile: create or replace the file
WriteFile(dir, name, bytes, t) ==
    [n \in DOMAIN dir \cup {name} |->
        IF n = name THEN [bytes |-> bytes, mtime |-> mtimeMs(t)] ELSE dir[n]]

\* the try { await sharp(buffer)...toFile(thumbPath) } catch { log } block
GenerateThumbnail(th, buffer, thumbName, t) ==
    IF SharpDecodes(buffer)
    THEN WriteFile(th, thumbName, SharpThumbnail(buffer), t)
    ELSE th

(***************************************************************************)
(* storeImageFromBuffer(buffer, originalName, { forceBasename, overwrite }) *)
(* run on the directories orig and th at time t, with r the value the      *)
(* random source gives and writeFails telling whether fsp.writeFile        *)
(* rejects.  The result carries the directories as the call leaves them.   *)
(***************************************************************************)
\* a rejection that does not say what was wrong
StoreErrorGeneric(orig, th, msg, originalName) ==
    [threw |-> FALSE, error |-> "Invalid upload", original |-> originalName,
     filename |-> NoName, thumb |-> NoName, skipped |-> FALSE,
     originals |-> orig, thumbs |-> th]

\* a rejection that leaves a file behind
StoreErrorLeavesFile(orig, th, msg, originalName) ==
    [threw |-> FALSE, error |-> msg, original |-> originalName,
     filename |-> NoName, thumb |-> NoName, skipped |-> FALSE,
     originals |-> WriteFile(orig, originalName, << >>, 0), thumbs |-> th]

StoreError(orig, th, msg, originalName) ==
    [threw |-> FALSE, error |-> msg, original |-> originalName,
     filename |-> NoName, thumb |-> NoName, skipped |-> FALSE,
     originals |-> orig, thumbs |-> th]

StoreThrew(orig, th, originalName) ==
    [threw |-> TRUE, error |-> "", original |-> originalName,
     filename |-> NoName, thumb |-> NoName, skipped |-> FALSE,
     originals |-> orig, thumbs |-> th]

\* a store that reports a missing thumbnail as an error
StoreItemNeedsThumbnail(orig, th, targetName, thumbName, skipped) ==
    IF fileExists(th, thumbName)
    THEN [threw |-> FALSE, error |-> "", original |-> NoName,
          filename |-> targetName, thumb |-> thumbName, skipped |-> skipped,
          originals |-> orig, thumbs |-> th]
    ELSE [threw |-> FALSE, error |-> "Error generating thumbnail", original |-> NoName,
          filename |-> NoName, thumb |-> NoName, skipped |-> FALSE,
          originals |-> orig, thumbs |-> th]

\* a store that never reports a skip
StoreItemNeverSkipped(orig, th, targetName, thumbName, skipped) ==
    [threw |-> FALSE, error |-> "", original |-> NoName,
     filename |-> targetName, thumb |-> thumbName, skipped |-> FALSE,
     originals |-> orig, thumbs |-> th]

StoreItem(orig, th, targetName, thumbName, skipped) ==
    [threw |-> FALSE, error |-> "", original |-> NoName,
     filename |-> targetName, thumb |-> thumbName, skipped |-> skipped,
     originals |-> orig, thumbs |-> th]

storeImageFromBuffer(orig, th, buffer, originalName, forceBasename, overwrite, t, r, writeFails) ==
    LET sourceName == IF forceBasename # NoName THEN forceBasename
                      ELSE IF originalName # NoName THEN originalName
                      ELSE <<"upload">>
        ext == toLowerCase(extname(sourceName))
        targetName == IF forceBasename # NoName
                      THEN Append(basename(forceBasename, ext), ext)
                      ELSE generateFilename(ext, t, r)
        base == basename(targetName, ext)
        thumbName == thumbNameOf(base)
    IN  IF ~IsBuffer(buffer)
        THEN StoreError(orig, th, "Uploaded file is not a valid image buffer", originalName)
        ELSE IF ext = ""
        THEN StoreError(orig, th, "Unable to determine file type", originalName)
        ELSE IF ext \notin VALID_EXTENSIONS
        THEN StoreError(orig, th, "Unsupported file type", originalName)
        ELSE IF ~isValidImageMagic(buffer)
        THEN StoreError(orig, th, "Uploaded file is not a valid image", originalName)
        ELSE IF ~overwrite /\ fileExists(orig, targetName)
        THEN StoreItem(orig,
                       IF fileExists(th, thumbName) THEN th
                       ELSE GenerateThumbnail(th, buffer, thumbName, t),
                       targetName, thumbName, TRUE)
        ELSE IF writeFails
        THEN StoreThrew(orig, th, originalName)
        ELSE StoreItem(WriteFile(orig, targetName, buffer, t),
                       GenerateThumbnail(th, buffer, thumbName, t),
                       targetName, thumbName, FALSE)

(***************************************************************************)
(* Authorization.  A header is the sequence of its characters; an absent   *)
(* header (undefined) and an empty one are both falsy and both << >>.      *)
(***************************************************************************)
NoHeader == << >>
Bearer == <<"B", "e", "a", "r", "e", "r", " ">>
Basic == <<"B", "a", "s", "i", "c", " ">>

\* process.env.UPLOAD_TOKEN
UPLOAD_TOKEN == <<"k", "e", "y">>
\* a value of process.env.TEST_FIXTURE_TOKEN that differs from UPLOAD_TOKEN
OtherFixtureToken == <<"f", "i", "x">>

\* String.prototype.startsWith
startsWith(s, prefix) ==
    Len(s) >= Len(prefix) /\ SubSeq(s, 1, Len(prefix)) = prefix

\* String.prototype.slice(from)
slice(s, from) == SubSeq(s, from + 1, Len(s))

\* a comparison that stops at the end of the shorter string
prefixEquals(a, b) ==
    \A i \in 1..(IF Len(a) < Len(b) THEN Len(a) ELSE Len(b)) : a[i] = b[i]

timingSafeEquals(a, b) ==
    IF Len(a) # Len(b) THEN FALSE
    ELSE \A i \in 1..Len(a) : a[i] = b[i]

\* the two authorization checks shared by the upload and fixture endpoints:
\* a check that refuses every request with the same words
checkAuthorizationUniform(authHeader, secret) ==
    IF authHeader = NoHeader \/ ~startsWith(authHeader, Bearer)
       \/ ~timingSafeEquals(slice(authHeader, 7), secret)
    THEN [status |-> 401, error |-> "Unauthorized"]
    ELSE [status |-> 0, error |-> ""]

\* the status and the error message of the refusal, status 0 when the
\* request is let through
checkAuthorization(authHeader, secret) ==
    IF authHeader = NoHeader \/ ~startsWith(authHeader, Bearer)
    THEN [status |-> 401, error |-> "Missing or invalid Authorization header"]
    ELSE IF ~timingSafeEquals(slice(authHeader, 7), secret)
    THEN [status |-> 401, error |-> "Invalid token"]
    ELSE [status |-> 0, error |-> ""]

(***************************************************************************)
(* State.                                                                  *)
(***************************************************************************)
VARIABLES
    originals,  \* PHOTO_DIR: file name -> [bytes, mtime]
    thumbs,     \* THUMBS_DIR: file name -> [bytes, mtime]
    now,        \* the clock
    config,     \* ENABLE_TEST_FIXTURES and TEST_FIXTURE_TOKEN, read at start-up
    nreq,       \* the number of requests handled so far
    last,       \* the last request handled, with its response
    prev,       \* the request handled before it, with its response
    scan,       \* the listing request in progress: its batches and file handles
    calls,      \* the calls of storeImageFromBuffer in progress
    page        \* the gallery page in the browser

\* what is in progress between the steps of a request, and the browser
async == <<scan, calls, page>>

vars == <<originals, thumbs, now, config, nreq, last, prev, scan, calls, page>>

\* a request and its response; each handler fills the fields it uses.
\* time, rs and fails are what the environment gave the handler (the clock,
\* the random values, the writes that failed); before is the content of the
\* two directories when the request arrived
NoRequest ==
    [op |-> "none", auth |-> NoHeader, files |-> << >>,
     buffer |-> NotABuffer, originalName |-> NoName, name |-> NoName,
     overwrite |-> TRUE, meta |-> FALSE,
     time |-> 0, rs |-> << >>, fails |-> << >>, ext |-> "",
     tags |-> << >>, ts |-> 0, dateMs |-> 0,
     readdir |-> << >>, openFails |-> {}, statFails |-> {},
     before |-> [originals |-> << >>, thumbs |-> << >>],
     status |-> 0, error |-> "", success |-> FALSE,
     items |-> << >>, errors |-> << >>, listing |-> << >>,
     skipped |-> FALSE, threw |-> FALSE, generated |-> FALSE, served |-> << >>,
     photo_deleted |-> FALSE, thumbnail_deleted |-> FALSE]

(***************************************************************************)
(* POST /api/upload                                                        *)
(***************************************************************************)
\* a loop that gives up at the first file that fails
RECURSIVE processFilesUntilError(_, _, _, _, _, _, _, _, _)
processFilesUntilError(files, i, orig, th, items, errors, t, rs, fails) ==
    IF i > Len(files)
    THEN [originals |-> orig, thumbs |-> th, items |-> items, errors |-> errors]
    ELSE
        LET file == files[i]
            result == storeImageFromBuffer(orig, th, file.buffer, file.originalname,
                                           NoName, TRUE, t, rs[i], fails[i])
        IN  IF result.threw \/ result.error # ""
            THEN [originals |-> result.originals, thumbs |-> result.thumbs, items |-> items,
                  errors |-> Append(errors, [original |-> file.originalname,
                                             error |-> "Processing failed"])]
            ELSE processFilesUntilError(files, i + 1, result.originals, result.thumbs,
                                        Append(items, [filename |-> result.filename,
                                                       thumb |-> result.thumb]),
                                        errors, t, rs, fails)

\* the loop over req.files, from file i on: every file is handed to
\* storeImageFromBuffer inside its own try/catch
RECURSIVE processFiles(_, _, _, _, _, _, _, _, _)
processFiles(files, i, orig, th, items, errors, t, rs, fails) ==
    IF i > Len(files)
    THEN [originals |-> orig, thumbs |-> th, items |-> items, errors |-> errors]
    ELSE
        LET file == files[i]
            result == storeImageFromBuffer(orig, th, file.buffer, file.originalname,
                                           NoName, TRUE, t, rs[i], fails[i])
        IN  IF result.threw
            THEN processFiles(files, i + 1, result.originals, result.thumbs, items,
                              Append(errors, [original |-> file.originalname,
                                              error |-> "Processing failed"]),
                              t, rs, fails)
            ELSE IF result.error # ""
            THEN processFiles(files, i + 1, result.originals, result.thumbs, items,
                              Append(errors, [original |-> file.originalname,
                                              error |-> result.error]),
                              t, rs, fails)
            ELSE processFiles(files, i + 1, result.originals, result.thumbs,
                              Append(items, [filename |-> result.filename,
                                             thumb |-> result.thumb]),
                              errors, t, rs, fails)

\* a handler that answers 200 whatever the files came to
uploadHandlerAlwaysOk(orig, th, authHeader, files, t, rs, fails) ==
    LET auth == checkAuthorization(authHeader, UPLOAD_TOKEN)
        done == processFiles(files, 1, orig, th, << >>, << >>, t, rs, fails)
        request == [NoRequest EXCEPT !.op = "upload", !.auth = authHeader,
                                     !.files = files, !.time = t, !.rs = rs,
                                     !.fails = fails]
    IN  IF auth.status # 0
        THEN [originals |-> orig, thumbs |-> th,
              response |-> [request EXCEPT !.status = auth.status, !.error = auth.error]]
        ELSE [originals |-> done.originals, thumbs |-> done.thumbs,
              response |-> [request EXCEPT !.status = 200, !.success = TRUE,
                                           !.items = done.items,
                                           !.errors = done.errors]]

\* the handler: the response and the directories as it leaves them
uploadHandler(orig, th, authHeader, files, t, rs, fails) ==
    LET auth == checkAuthorization(authHeader, UPLOAD_TOKEN)
        done == processFiles(files, 1, orig, th, << >>, << >>, t, rs, fails)
        request == [NoRequest EXCEPT !.op = "upload", !.auth = authHeader,
                                     !.files = files, !.time = t, !.rs = rs,
                                     !.fails = fails]
    IN  IF auth.status # 0
        THEN [originals |-> orig, thumbs |-> th,
              response |-> [request EXCEPT !.status = auth.status, !.error = auth.error]]
        ELSE IF Len(files) = 0
        THEN [originals |-> orig, thumbs |-> th,
              response |-> [request EXCEPT !.status = 400, !.error = "No file uploaded"]]
        ELSE IF Len(done.items) = 0
        THEN [originals |-> done.originals, thumbs |-> done.thumbs,
              response |-> [request EXCEPT !.status = 400, !.success = FALSE,
                                           !.errors = done.errors]]
        ELSE [originals |-> done.originals, thumbs |-> done.thumbs,
              response |-> [request EXCEPT !.status = 200, !.success = TRUE,
                                           !.items = done.items,
                                           !.errors = done.errors]]

(***************************************************************************)
(* POST /api/test/fixtures                                                 *)
(***************************************************************************)
\* deploy/test-fixtures.js, with Buffer.from(fixture.base64, 'base64') done
TEST_FIXTURES ==
    << [slug |-> "fixture-red", filename |-> <<"fixture-red", ".png">>, buffer |-> FixtureRed],
       [slug |-> "fixture-green", filename |-> <<"fixture-green", ".png">>, buffer |-> FixtureGreen],
       [slug |-> "fixture-blue", filename |-> <<"fixture-blue", ".png">>, buffer |-> FixtureBlue] >>

\* a loop that stores every fixture anew
RECURSIVE seedFixturesOverwriting(_, _, _, _, _, _, _)
seedFixturesOverwriting(i, orig, th, results, errors, t, fails) ==
    IF i > Len(TEST_FIXTURES)
    THEN [originals |-> orig, thumbs |-> th, results |-> results, errors |-> errors]
    ELSE
        LET fixture == TEST_FIXTURES[i]
            result == storeImageFromBuffer(orig, th, fixture.buffer, fixture.filename,
                                           fixture.filename, TRUE, t, 1, FALSE)
        IN  seedFixturesOverwriting(i + 1, result.originals, result.thumbs,
                                    Append(results, [fixture |-> fixture.slug,
                                                     filename |-> result.filename,
                                                     thumb |-> result.thumb,
                                                     skipped |-> result.skipped]),
                                    errors, t, fails)

\* the loop over TEST_FIXTURES, from fixture i on
RECURSIVE seedFixtures(_, _, _, _, _, _, _)
seedFixtures(i, orig, th, results, errors, t, fails) ==
    IF i > Len(TEST_FIXTURES)
    THEN [originals |-> orig, thumbs |-> th, results |-> results, errors |-> errors]
    ELSE
        LET fixture == TEST_FIXTURES[i]
            result == storeImageFromBuffer(orig, th, fixture.buffer, fixture.filename,
                                           fixture.filename, FALSE, t, 1, fails[i])
        IN  IF result.threw
            THEN seedFixtures(i + 1, result.originals, result.thumbs, results,
                              Append(errors, [fixture |-> fixture.slug,
                                              error |-> "Processing failed"]),
                              t, fails)
            ELSE IF result.error # ""
            THEN seedFixtures(i + 1, result.originals, result.thumbs, results,
                              Append(errors, [fixture |-> fixture.slug,
                                              error |-> result.error]),
                              t, fails)
            ELSE seedFixtures(i + 1, result.originals, result.thumbs,
                              Append(results, [fixture |-> fixture.slug,
                                               filename |-> result.filename,
                                               thumb |-> result.thumb,
                                               skipped |-> result.skipped]),
                              errors, t, fails)

fixturesHandler(orig, th, cfg, authHeader, t, fails) ==
    LET auth == checkAuthorization(authHeader, cfg.TEST_FIXTURE_TOKEN)
        done == seedFixtures(1, orig, th, << >>, << >>, t, fails)
        request == [NoRequest EXCEPT !.op = "fixtures", !.auth = authHeader,
                                     !.time = t, !.fails = fails, !.overwrite = FALSE]
    IN  IF ~cfg.ENABLE_TEST_FIXTURES
        THEN [originals |-> orig, thumbs |-> th,
              response |-> [request EXCEPT !.status = 404, !.error = "Not found"]]
        ELSE IF auth.status # 0
        THEN [originals |-> orig, thumbs |-> th,
              response |-> [request EXCEPT !.status = auth.status, !.error = auth.error]]
        ELSE [originals |-> done.originals, thumbs |-> done.thumbs,
              response |-> [request EXCEPT
                  !.status = 200,
                  !.success = \E k \in 1..Len(done.results) : ~done.results[k].skipped,
                  !.items = done.results,
                  !.errors = done.errors]]

(***************************************************************************)
(* The date resolver, getDateInfoFor.                                      *)
(*                                                                         *)
(* An EXIF tag value is [kind, v]: "none" (the tag is absent), "num" (a    *)
(* number of seconds v), "str" (a string matching the EXIF date pattern    *)
(* that Date.parse turns into v milliseconds), "nan" (a string matching    *)
(* the pattern that Date.parse cannot parse) or "text" (any other string). *)
(***************************************************************************)
NoTag == [kind |-> "none", v |-> 0]
NoTags == [DateTimeOriginal |-> NoTag, CreateDate |-> NoTag,
           ModifyDate |-> NoTag, DateTimeDigitized |-> NoTag]

\* null and NaN, kept apart from every timestamp of the model
null == -1
NaN == -2

\* exifParser.create(fileBuf).parse(): whether it throws, and the tags
ExifParse(buffer) ==
    IF buffer = JpegImage
    THEN [throws |-> FALSE,
          tags |-> [NoTags EXCEPT !.CreateDate = [kind |-> "num", v |-> 1],
                                  !.ModifyDate = [kind |-> "num", v |-> 3]]]
    ELSE IF buffer = JpegLateExif
    THEN [throws |-> FALSE, tags |-> NoTags]
    ELSE [throws |-> TRUE, tags |-> NoTags]

\* sharp(fullPath).metadata(): whether it throws, whether meta.exif is a
\* Buffer, and the tags exif-parser reads from it
SharpMetadata(buffer) ==
    IF buffer = JpegLateExif
    THEN [throws |-> FALSE, hasExif |-> TRUE,
          tags |-> [NoTags EXCEPT !.DateTimeOriginal = [kind |-> "num", v |-> 2]]]
    ELSE [throws |-> ~SharpDecodes(buffer),
          hasExif |-> ~ExifParse(buffer).throws,
          tags |-> ExifParse(buffer).tags]

\* JavaScript truthiness of a timestamp
truthy(ts) == ts # null /\ ts # NaN /\ ts # 0

\* a round that takes the value of the field whatever was found before
tagStepNoBreak(ts, val) ==
    IF val.kind = "num" THEN val.v * 1000
    ELSE IF val.kind \in {"date", "str"} THEN val.v
    ELSE IF val.kind = "nan" THEN NaN
    ELSE ts

\* one round of the loop over the candidates
tagStep(ts, val) ==
    IF truthy(ts) THEN ts
    ELSE IF val.kind = "num" THEN val.v * 1000
    ELSE IF val.kind = "date" THEN val.v
    ELSE IF val.kind = "str" THEN val.v
    ELSE IF val.kind = "nan" THEN NaN
    ELSE ts

\* the loop over [DateTimeOriginal, CreateDate, ModifyDate, DateTimeDigitized]
firstDate(tags) ==
    tagStep(tagStep(tagStep(tagStep(null, tags.DateTimeOriginal), tags.CreateDate),
                    tags.ModifyDate), tags.DateTimeDigitized)

\* typeof ts === 'number' && ts > 0
usable(ts) == ts # null /\ ts # NaN /\ ts > 0

\* getDateInfoFor(file) on the directory orig; openFails: opening or
\* reading the file throws; statFails: fsp.stat throws
\* a resolver that reads the EXIF data of the file prefix only
getDateInfoForPrefixOnly(orig, file, openFails, statFails) ==
    LET parsed == ExifParse(orig[file].bytes)
        ts == IF parsed.throws THEN null ELSE firstDate(parsed.tags)
    IN  IF ~openFails /\ usable(ts) THEN [dateMs |-> ts, source |-> "exif"]
        ELSE IF ~statFails THEN [dateMs |-> orig[file].mtime, source |-> "mtime"]
        ELSE [dateMs |-> 0, source |-> "unknown"]

getDateInfoFor(orig, file, openFails, statFails) ==
    LET bytes == orig[file].bytes
        parsed == ExifParse(bytes)
        ts == IF parsed.throws THEN null ELSE firstDate(parsed.tags)
        meta == SharpMetadata(bytes)
        ts2 == IF meta.throws \/ ~meta.hasExif THEN null ELSE firstDate(meta.tags)
        exifMs == IF openFails THEN null
                  ELSE IF usable(ts) THEN ts
                  ELSE IF usable(ts2) THEN ts2
                  ELSE null
    IN  IF exifMs # null THEN [dateMs |-> exifMs, source |-> "exif"]
        ELSE IF ~statFails THEN [dateMs |-> orig[file].mtime, source |-> "mtime"]
        ELSE [dateMs |-> 0, source |-> "unknown"]

(***************************************************************************)
(* GET /api/photos                                                         *)
(***************************************************************************)
\* the entry of the thumbnails directory inside PHOTO_DIR
ThumbsDirEntry == <<"thumbs">>

\* a filter that lets only JPEG files through
isListedJpegOnly(file) == toLowerCase(extname(file)) \in {".jpg", ".jpeg"}

\* a filter that compares the extension as it is written
isListedCaseSensitive(file) == extname(file) \in VALID_EXTENSIONS

\* the filter on the extension
isListed(file) == toLowerCase(extname(file)) \in VALID_EXTENSIONS

\* an insertion that puts the oldest first
insertByDateAscending(sorted, x) ==
    LET k == Cardinality({i \in 1..Len(sorted) : sorted[i].dateMs <= x.dateMs})
    IN  SubSeq(sorted, 1, k) \o <<x>> \o SubSeq(sorted, k + 1, Len(sorted))

\* Array.prototype.sort((a, b) => b.dateMs - a.dateMs), a stable sort:
\* x goes behind every element that is not older than it
insertByDate(sorted, x) ==
    LET k == Cardinality({i \in 1..Len(sorted) : sorted[i].dateMs >= x.dateMs})
    IN  SubSeq(sorted, 1, k) \o <<x>> \o SubSeq(sorted, k + 1, Len(sorted))

RECURSIVE sortByDate(_, _)
sortByDate(withDates, sorted) ==
    IF withDates = << >> THEN sorted
    ELSE sortByDate(Tail(withDates), insertByDate(sorted, Head(withDates)))

\* new Date(dateMs).toISOString(): the ISO-8601 string of the instant dateMs
toISOString(dateMs) == <<dateMs>>
\* the null of date_taken and of thumb
nullValue == << >>

\* a lookup that tries the legacy name first
findThumbLegacyFirst(thumbSet, file) ==
    LET ext == toLowerCase(extname(file))
        base == basename(file, ext)
    IN  IF legacyThumbNameOf(base) \in thumbSet THEN legacyThumbNameOf(base)
        ELSE IF thumbNameOf(base) \in thumbSet THEN thumbNameOf(base)
        ELSE nullValue

\* the thumbnail of an original among the names of the thumbnails directory
findThumb(thumbSet, file) ==
    LET ext == toLowerCase(extname(file))
        base == basename(file, ext)
    IN  IF thumbNameOf(base) \in thumbSet THEN thumbNameOf(base)
        ELSE IF legacyThumbNameOf(base) \in thumbSet THEN legacyThumbNameOf(base)
        ELSE nullValue

\* the handler, given what the environment answers: files is what
\* readdir(PHOTO_DIR) returns, openFails and statFails are the files whose
\* open and stat throw, thumbsUnreadable tells whether readdir(THUMBS_DIR) throws
\* a handler that returns the names in directory order when no metadata is asked for
listHandlerNamesUnsorted(orig, th, includeMeta, files, openFails, statFails, thumbsUnreadable) ==
    LET listed == SelectSeq(files, isListed)
        withDates == [i \in 1..Len(listed) |->
            LET info == getDateInfoFor(orig, listed[i],
                                       listed[i] \in openFails, listed[i] \in statFails)
            IN  [file |-> listed[i], dateMs |-> info.dateMs, source |-> info.source]]
        sorted == sortByDate(withDates, << >>)
        thumbSet == IF thumbsUnreadable THEN {} ELSE DOMAIN th
        request == [NoRequest EXCEPT !.op = "list", !.meta = includeMeta,
                                     !.readdir = files, !.openFails = openFails,
                                     !.statFails = statFails,
                                     !.fails = <<thumbsUnreadable>>]
    IN  IF ~includeMeta
        THEN [request EXCEPT !.status = 200, !.listing = listed]
        ELSE [request EXCEPT !.status = 200,
                             !.listing = [i \in 1..Len(sorted) |->
                                 [original |-> sorted[i].file,
                                  thumb |-> findThumb(thumbSet, sorted[i].file),
                                  date_taken |-> IF sorted[i].dateMs # 0
                                                 THEN toISOString(sorted[i].dateMs)
                                                 ELSE nullValue,
                                  date_source |-> sorted[i].source]]]

listHandler(orig, th, includeMeta, files, openFails, statFails, thumbsUnreadable) ==
    LET listed == SelectSeq(files, isListed)
        withDates == [i \in 1..Len(listed) |->
            LET info == getDateInfoFor(orig, listed[i],
                                       listed[i] \in openFails, listed[i] \in statFails)
            IN  [file |-> listed[i], dateMs |-> info.dateMs, source |-> info.source]]
        sorted == sortByDate(withDates, << >>)
        thumbSet == IF thumbsUnreadable THEN {} ELSE DOMAIN th
        request == [NoRequest EXCEPT !.op = "list", !.meta = includeMeta,
                                     !.readdir = files, !.openFails = openFails,
                                     !.statFails = statFails,
                                     !.fails = <<thumbsUnreadable>>]
    IN  IF ~includeMeta
        THEN [request EXCEPT !.status = 200,
                             !.listing = [i \in 1..Len(sorted) |-> sorted[i].file]]
        ELSE [request EXCEPT !.status = 200,
                             !.listing = [i \in 1..Len(sorted) |->
                                 [original |-> sorted[i].file,
                                  thumb |-> findThumb(thumbSet, sorted[i].file),
                                  date_taken |-> IF sorted[i].dateMs # 0
                                                 THEN toISOString(sorted[i].dateMs)
                                                 ELSE nullValue,
                                  date_source |-> sorted[i].source]]]

(***************************************************************************)
(* GET /files/:name                                                        *)
(***************************************************************************)
fileHandler(orig, fileName) ==
    LET request == [NoRequest EXCEPT !.op = "file", !.name = fileName]
    IN  IF toLowerCase(extname(fileName)) \notin VALID_EXTENSIONS
        THEN [request EXCEPT !.status = 404, !.error = "Not found"]
        ELSE IF ~fileExists(orig, fileName)
        THEN [request EXCEPT !.status = 404, !.error = "Not found"]
        ELSE [request EXCEPT !.status = 200, !.served = orig[fileName].bytes]

(***************************************************************************)
(* GET /files/thumbs/:name, with generation on demand                      *)
(***************************************************************************)
\* a handler that generates the thumbnail on every request
thumbHandlerNoCache(orig, th, inputName, t) ==
    LET ext == toLowerCase(extname(inputName))
        base == basename(inputName, ext)
        thumbName == thumbNameOf(base)
        request == [NoRequest EXCEPT !.op = "thumb", !.name = inputName, !.time = t]
    IN  IF ext \notin VALID_EXTENSIONS \/ ~fileExists(orig, inputName)
        THEN [thumbs |-> th, response |-> [request EXCEPT !.status = 404, !.error = "Not found"]]
        ELSE IF ~SharpDecodes(orig[inputName].bytes)
        THEN [thumbs |-> th,
              response |-> [request EXCEPT !.status = 500,
                                           !.error = "Error generating thumbnail"]]
        ELSE [thumbs |-> WriteFile(th, thumbName, SharpThumbnail(orig[inputName].bytes), t),
              response |-> [request EXCEPT !.status = 200, !.generated = TRUE,
                                           !.served = SharpThumbnail(orig[inputName].bytes)]]

thumbHandler(orig, th, inputName, t) ==
    LET ext == toLowerCase(extname(inputName))
        base == basename(inputName, ext)
        thumbName == thumbNameOf(base)
        request == [NoRequest EXCEPT !.op = "thumb", !.name = inputName, !.time = t]
        serve(name) == [thumbs |-> th,
                        response |-> [request EXCEPT !.status = 200,
                                                     !.served = th[name].bytes]]
    IN  IF ext \notin VALID_EXTENSIONS
        THEN [thumbs |-> th, response |-> [request EXCEPT !.status = 404, !.error = "Not found"]]
        ELSE IF fileExists(th, inputName) THEN serve(inputName)
        ELSE IF fileExists(th, thumbName) THEN serve(thumbName)
        ELSE IF fileExists(th, legacyThumbNameOf(base)) THEN serve(legacyThumbNameOf(base))
        ELSE IF ~fileExists(orig, inputName)
        THEN [thumbs |-> th, response |-> [request EXCEPT !.status = 404, !.error = "Not found"]]
        ELSE IF ~SharpDecodes(orig[inputName].bytes)
        THEN [thumbs |-> th,
              response |-> [request EXCEPT !.status = 500,
                                           !.error = "Error generating thumbnail"]]
        ELSE [thumbs |-> WriteFile(th, thumbName, SharpThumbnail(orig[inputName].bytes), t),
              response |-> [request EXCEPT !.status = 200, !.generated = TRUE,
                                           !.served = SharpThumbnail(orig[inputName].bytes)]]

(***************************************************************************)
(* DELETE /api/photos/:name, the endpoint the frontend's deletePhoto       *)
(* calls.  Its handler is not among the sources; it is modelled from its   *)
(* description: the authorization of the upload endpoint, the original     *)
(* removed, its thumbnail <base>.thumb.jpg removed if that can be done,    *)
(* and the two flags reported.  thumbRemovalFails tells whether removing   *)
(* the thumbnail throws.                                                   *)
(***************************************************************************)
RemoveFile(dir, name) == [n \in DOMAIN dir \ {name} |-> dir[n]]

\* a handler that gives up when the thumbnail cannot be removed
deleteHandlerAllOrNothing(orig, th, authHeader, fileName, thumbRemovalFails) ==
    LET auth == checkAuthorization(authHeader, UPLOAD_TOKEN)
        thumbName == thumbNameOf(basename(fileName, toLowerCase(extname(fileName))))
        request == [NoRequest EXCEPT !.op = "delete", !.auth = authHeader, !.name = fileName]
    IN  IF auth.status # 0
        THEN [originals |-> orig, thumbs |-> th,
              response |-> [request EXCEPT !.status = auth.status, !.error = auth.error]]
        ELSE IF ~fileExists(th, thumbName) \/ thumbRemovalFails
        THEN [originals |-> orig, thumbs |-> th,
              response |-> [request EXCEPT !.status = 500, !.error = "Delete failed"]]
        ELSE [originals |-> RemoveFile(orig, fileName), thumbs |-> RemoveFile(th, thumbName),
              response |-> [request EXCEPT !.status = 200, !.photo_deleted = TRUE,
                                           !.thumbnail_deleted = TRUE]]

deleteHandler(orig, th, authHeader, fileName, thumbRemovalFails) ==
    LET auth == checkAuthorization(authHeader, UPLOAD_TOKEN)
        thumbName == thumbNameOf(basename(fileName, toLowerCase(extname(fileName))))
        thumbRemoved == fileExists(th, thumbName) /\ ~thumbRemovalFails
        request == [NoRequest EXCEPT !.op = "delete", !.auth = authHeader, !.name = fileName]
    IN  IF auth.status # 0
        THEN [originals |-> orig, thumbs |-> th,
              response |-> [request EXCEPT !.status = auth.status, !.error = auth.error]]
        ELSE [originals |-> RemoveFile(orig, fileName),
              thumbs |-> IF thumbRemoved THEN RemoveFile(th, thumbName) ELSE th,
              response |-> [request EXCEPT !.status = 200, !.photo_deleted = TRUE,
                                           !.thumbnail_deleted = thumbRemoved]]

(***************************************************************************)
(* The requests of the model.                                              *)
(***************************************************************************)
AuthHeaders ==
    { NoHeader,
      Basic \o UPLOAD_TOKEN,
      Bearer \o UPLOAD_TOKEN,
      Bearer \o OtherFixtureToken,
      Bearer \o SubSeq(UPLOAD_TOKEN, 1, Len(UPLOAD_TOKEN) - 1),
      Bearer \o UPLOAD_TOKEN \o <<"s">> }

\* the files a client sends: a name and the bytes
ValidPng == [originalname |-> <<"cat", ".png">>, buffer |-> PngImage]
ValidJpeg == [originalname |-> <<"trip", ".JPG">>, buffer |-> JpegImage]

UploadFiles ==
    { ValidPng,
      ValidJpeg,
      [originalname |-> <<"broken", ".png">>, buffer |-> CorruptPng],
      [originalname |-> <<"notes", ".png">>, buffer |-> TextFile],
      [originalname |-> <<"cat", ".txt">>, buffer |-> PngImage],
      [originalname |-> <<"cat">>, buffer |-> PngImage] }

SeqsUpTo(S, n) == UNION {[1..k -> S] : k \in 0..n}

\* the requests sent to the upload endpoint: every header with no file and
\* with one file, the right header with every sequence of files
UploadRequests ==
    {[auth |-> a, files |-> f] : a \in AuthHeaders, f \in {<< >>, <<ValidPng>>}}
    \cup {[auth |-> Bearer \o UPLOAD_TOKEN, files |-> f] : f \in SeqsUpTo(UploadFiles, MaxFiles)}

\* the requests a gallery visitor's uploads are made of
GalleryUploads ==
    {[auth |-> Bearer \o UPLOAD_TOKEN, files |-> f] :
        f \in SeqsUpTo({ValidPng, ValidJpeg, [originalname |-> <<"broken", ".png">>,
                                              buffer |-> CorruptPng]}, MaxFiles) \ {<< >>}}

\* whether storeImageFromBuffer gets as far as naming and writing the file
reachesWrite(buffer, sourceName) ==
    /\ IsBuffer(buffer)
    /\ toLowerCase(extname(sourceName)) \in VALID_EXTENSIONS
    /\ isValidImageMagic(buffer)

\* readdir returns the entries in no particular order: one order and its reverse
RECURSIVE someOrder(_)
someOrder(S) ==
    IF S = {} THEN << >>
    ELSE LET x == CHOOSE y \in S : TRUE IN <<x>> \o someOrder(S \ {x})

reverse(seq) == [i \in 1..Len(seq) |-> seq[Len(seq) + 1 - i]]

readdirOrders(S) == {someOrder(S), reverse(someOrder(S))}

\* the names a client asks the file endpoints for
RequestNames ==
    DOMAIN originals \cup DOMAIN thumbs \cup {<<"missing", ".png">>, <<"notes", ".txt">>}

\* what the state keeps of the request before the last one
summary(r) ==
    [op |-> r.op, name |-> r.name, buffer |-> r.buffer, originalName |-> r.originalName,
     overwrite |-> r.overwrite, time |-> r.time, status |-> r.status, error |-> r.error,
     items |-> r.items, skipped |-> r.skipped, threw |-> r.threw,
     generated |-> r.generated, served |-> r.served, before |-> r.before]

(***************************************************************************)
(* GET /api/photos step by step: the resolutions of a batch are started    *)
(* together and each of them goes on at its own pace, from one await to    *)
(* the next.  A resolution is "waiting" before its batch starts, "opening" *)
(* while fs.promises.open is awaited, "reading" while the handle is read   *)
(* and closed, "dating" from there to its return, and then "done".         *)
(***************************************************************************)
CONCURRENCY_LIMIT == 10

NoScan ==
    [phase |-> "idle", meta |-> FALSE, readdir |-> << >>, listed |-> << >>,
     openFails |-> {}, readFails |-> {}, statFails |-> {},
     i |-> 0, pos |-> << >>, started |-> << >>, opened |-> {}, handles |-> {},
     results |-> << >>, withDates |-> << >>]

\* a call of storeImageFromBuffer that has not started
NoCall ==
    [pos |-> "idle", buffer |-> NotABuffer, forceBasename |-> NoName,
     targetName |-> NoName, thumbName |-> NoName, absentAtStart |-> FALSE,
     presentAtCheck |-> FALSE,
     returned |-> FALSE, skipped |-> FALSE]
NoCalls == [c \in 1..2 |-> NoCall]

\* the page before its script runs: the variables of the script, what of the
\* document it reads (the gallery items, the two modals, the toast), the
\* requests and timers it has pending, and what its last delete did
NoReport ==
    [made |-> FALSE, deleted |-> NoName, lookup |-> NoName, compared |-> NoName,
     wasViewing |-> FALSE, openAtReload |-> FALSE]
NoPage ==
    [loading |-> 0, allImages |-> << >>, items |-> {},
     photoToDelete |-> NoName, confirmOpen |-> FALSE,
     lightboxOpen |-> FALSE, currentImageIndex |-> -1, modalImage |-> NoName,
     deleting |-> FALSE, sent |-> NoName, token |-> << >>, deletes |-> 0,
     toast |-> FALSE, timers |-> {}, report |-> NoReport]

Quiet == scan = NoScan /\ calls = NoCalls /\ page = NoPage

\* a loop that starts every remaining resolution at once
batchToEnd(n, i) == (i + 1)..n

\* originals.slice(i, i + CONCURRENCY_LIMIT), as positions in originals
batchIndexes(n, i) == {k \in (i + 1)..(i + CONCURRENCY_LIMIT) : k <= n}

\* the head of the for loop and Promise.all(batch.map(...)): every resolution of
\* the batch runs up to its first await; after the last batch comes the sort
startBatch(s, i) ==
    IF i >= Len(s.listed)
    THEN [s EXCEPT !.phase = "sorting", !.i = i]
    ELSE [s EXCEPT !.i = i,
                   !.pos = [k \in DOMAIN s.pos |->
                               IF k \in batchIndexes(Len(s.listed), i) THEN "opening"
                               ELSE s.pos[k]],
                   !.started = [k \in DOMAIN s.started |->
                               IF k \in batchIndexes(Len(s.listed), i) THEN s.started[k] + 1
                               ELSE s.started[k]]]

\* the first EXIF attempt, on the prefix of the file, finds a date
datedByPrefix(bytes) ==
    ~ExifParse(bytes).throws /\ usable(firstDate(ExifParse(bytes).tags))

\* a handle that stays open when the read fails
closeOnSuccess(handles, k, readFailed) == IF readFailed THEN handles ELSE handles \ {k}

\* finally { await fileHandle.close() }
closeHandle(handles, k, readFailed) == handles \ {k}


(* configuration read from the environment.                                *)
(***************************************************************************)
\* an original stored by the first version of the server, which made no thumbnails
OldOriginal == <<"20240101000000_old", ".jpg">>
\* an original whose thumbnail has the legacy name
LegacyOriginal == <<"20240101000000_legacy", ".png">>

InitialDisks ==
    { [originals |-> EmptyDir, thumbs |-> EmptyDir],
      [originals |-> [n \in {OldOriginal, LegacyOriginal} |->
                         IF n = OldOriginal THEN [bytes |-> JpegImage, mtime |-> 500]
                         ELSE [bytes |-> PngImage, mtime |-> 600]],
       thumbs |-> [n \in {legacyThumbNameOf(basename(LegacyOriginal, ".png"))} |->
                      [bytes |-> SharpThumbnail(PngImage), mtime |-> 600]]] }

Configs ==
    { [ENABLE_TEST_FIXTURES |-> FALSE, TEST_FIXTURE_TOKEN |-> UPLOAD_TOKEN],
      [ENABLE_TEST_FIXTURES |-> TRUE, TEST_FIXTURE_TOKEN |-> UPLOAD_TOKEN],
      [ENABLE_TEST_FIXTURES |-> TRUE, TEST_FIXTURE_TOKEN |-> OtherFixtureToken] }

\* a directory filled by hand: camera files with upper-case extensions, one of
\* them with its EXIF data far into the file, and a file that is no image
CameraOriginal == <<"IMG_0001", ".JPG">>
StrayFile == <<"notes", ".txt">>

\* an original restored from an archive that kept no times: its modification
\* time is the epoch
RestoredOriginal == <<"restored", ".png">>

\* an original that has a thumbnail of either name
RegeneratedOriginal == <<"20240101000000_both", ".png">>

ListingDisks ==
    InitialDisks \cup
    { [originals |-> [n \in {OldOriginal, LegacyOriginal, CameraOriginal, StrayFile,
                              RestoredOriginal} |->
                         IF n = OldOriginal THEN [bytes |-> JpegImage, mtime |-> 500]
                         ELSE IF n = LegacyOriginal THEN [bytes |-> PngImage, mtime |-> 600]
                         ELSE IF n = RestoredOriginal THEN [bytes |-> PngImage, mtime |-> 0]
                         ELSE IF n = CameraOriginal THEN [bytes |-> JpegLateExif, mtime |-> 700]
                         ELSE [bytes |-> TextFile, mtime |-> 800]],
       thumbs |-> [n \in {legacyThumbNameOf(basename(LegacyOriginal, ".png"))} |->
                      [bytes |-> SharpThumbnail(PngImage), mtime |-> 600]]],
      [originals |-> [n \in {OldOriginal, LegacyOriginal, RegeneratedOriginal} |->
                         IF n = OldOriginal THEN [bytes |-> JpegImage, mtime |-> 500]
                         ELSE [bytes |-> PngImage, mtime |-> 600]],
       thumbs |-> [n \in {legacyThumbNameOf(basename(LegacyOriginal, ".png")),
                          legacyThumbNameOf(basename(RegeneratedOriginal, ".png")),
                          thumbNameOf(basename(RegeneratedOriginal, ".png"))} |->
                      [bytes |-> SharpThumbnail(PngImage), mtime |-> 600]]] }

InitListing ==
    /\ \E disk \in ListingDisks : originals = disk.originals /\ thumbs = disk.thumbs
    /\ config = [ENABLE_TEST_FIXTURES |-> FALSE, TEST_FIXTURE_TOKEN |-> UPLOAD_TOKEN]
    /\ now = 1
    /\ nreq = 0
    /\ last = NoRequest
    /\ prev = summary(NoRequest)
    /\ Quiet

\* a directory with an uploaded image and its thumbnail
UploadedOriginal == <<"20240101000000_up", ".png">>

DeleteDisks ==
    InitialDisks \cup
    { [originals |-> [n \in {OldOriginal, UploadedOriginal} |->
                         IF n = OldOriginal THEN [bytes |-> JpegImage, mtime |-> 500]
                         ELSE [bytes |-> PngImage, mtime |-> 900]],
       thumbs |-> [n \in {thumbNameOf(basename(UploadedOriginal, ".png"))} |->
                      [bytes |-> SharpThumbnail(PngImage), mtime |-> 900]]] }

InitDelete ==
    /\ \E disk \in DeleteDisks : originals = disk.originals /\ thumbs = disk.thumbs
    /\ config = [ENABLE_TEST_FIXTURES |-> FALSE, TEST_FIXTURE_TOKEN |-> UPLOAD_TOKEN]
    /\ now = 1
    /\ nreq = 0
    /\ last = NoRequest
    /\ prev = summary(NoRequest)
    /\ Quiet

\* a gallery of n photos, JPEG files with EXIF data except the third, a PNG
\* file, and a file that is no image
ScanCounts == {0, 3, CONCURRENCY_LIMIT + 1}
ScanName(k) == <<"photo" \o ToString(k), IF k = 3 THEN ".png" ELSE ".jpg">>
ScanDisk(n) ==
    [originals |-> [name \in {ScanName(k) : k \in 1..n} \cup {StrayFile} |->
                       IF name = StrayFile THEN [bytes |-> TextFile, mtime |-> 800]
                       ELSE IF name = ScanName(3) THEN [bytes |-> PngImage, mtime |-> 600]
                       ELSE [bytes |-> JpegImage, mtime |-> 500]],
     thumbs |-> EmptyDir]

InitScan ==
    /\ \E n \in ScanCounts :
          originals = ScanDisk(n).originals /\ thumbs = ScanDisk(n).thumbs
    /\ config = [ENABLE_TEST_FIXTURES |-> FALSE, TEST_FIXTURE_TOKEN |-> UPLOAD_TOKEN]
    /\ now = 1
    /\ nreq = 0
    /\ last = NoRequest
    /\ prev = summary(NoRequest)
    /\ Quiet

InitWith(configs) ==
    /\ \E disk \in InitialDisks : originals = disk.originals /\ thumbs = disk.thumbs
    /\ config \in configs
    /\ now = 1
    /\ nreq = 0
    /\ last = NoRequest
    /\ prev = summary(NoRequest)
    /\ Quiet

Init == InitWith(Configs)

(***************************************************************************)
(* The actions: one per request, and the passing of time.                  *)
(***************************************************************************)
Answer(response) ==
    /\ nreq' = nreq + 1
    /\ prev' = summary(last)
    /\ last' = [response EXCEPT !.before = [originals |-> originals, thumbs |-> thumbs]]

\* the response of a handler that runs in one step
Respond(response) == Answer(response) /\ UNCHANGED async

\* a request to POST /api/upload drawn from requests
UploadFrom(requests, limit) ==
    /\ nreq < limit
    /\ \E request \in requests :
       \E rs \in [1..Len(request.files) -> 1..NumRandom],
          fails \in [1..Len(request.files) -> BOOLEAN] :
          /\ \A i \in 1..Len(request.files) :
                \/ reachesWrite(request.files[i].buffer, request.files[i].originalname)
                \/ (rs[i] = 1 /\ ~fails[i])
          /\ LET out == uploadHandler(originals, thumbs, request.auth, request.files,
                                      now, rs, fails)
             IN  /\ originals' = out.originals
                 /\ thumbs' = out.thumbs
                 /\ Respond(out.response)
    /\ UNCHANGED <<now, config>>

Upload == UploadFrom(UploadRequests, MaxUploads)

GalleryUpload == UploadFrom(GalleryUploads, MaxUploads)

\* uploads of one image each, one after the other
SingleUpload ==
    UploadFrom({request \in GalleryUploads : Len(request.files) = 1}, MaxRequests)

SeedFixtures ==
    /\ nreq < MaxRequests
    /\ \E authHeader \in AuthHeaders, fails \in [1..Len(TEST_FIXTURES) -> BOOLEAN] :
          /\ \A i \in 1..Len(TEST_FIXTURES) :
                fails[i] => /\ config.ENABLE_TEST_FIXTURES
                            /\ checkAuthorization(authHeader, config.TEST_FIXTURE_TOKEN).status = 0
                            /\ ~fileExists(originals, TEST_FIXTURES[i].filename)
          /\ LET out == fixturesHandler(originals, thumbs, config, authHeader, now, fails)
             IN  /\ originals' = out.originals
                 /\ thumbs' = out.thumbs
                 /\ Respond(out.response)
    /\ UNCHANGED <<now, config>>

ListPhotos ==
    /\ nreq < MaxRequests
    /\ \E includeMeta \in BOOLEAN, files \in readdirOrders(DOMAIN originals \cup {ThumbsDirEntry}),
          openFails \in SUBSET DOMAIN originals, statFails \in SUBSET DOMAIN originals,
          thumbsUnreadable \in BOOLEAN :
          /\ Cardinality(openFails \cup statFails) <= MaxFaults
          /\ thumbsUnreadable => includeMeta
          /\ Respond(listHandler(originals, thumbs, includeMeta, files,
                                 openFails, statFails, thumbsUnreadable))
    /\ UNCHANGED <<originals, thumbs, now, config>>

ServeFile ==
    /\ nreq < MaxRequests
    /\ \E fileName \in RequestNames : Respond(fileHandler(originals, fileName))
    /\ UNCHANGED <<originals, thumbs, now, config>>

ServeThumb ==
    /\ nreq < MaxRequests
    /\ \E inputName \in RequestNames :
          LET out == thumbHandler(originals, thumbs, inputName, now)
          IN  /\ thumbs' = out.thumbs
              /\ Respond(out.response)
    /\ UNCHANGED <<originals, now, config>>

\* a request to delete an original that exists
DeletePhoto ==
    /\ nreq < MaxRequests
    /\ \E authHeader \in AuthHeaders, fileName \in DOMAIN originals,
          thumbRemovalFails \in BOOLEAN :
          /\ thumbRemovalFails =>
                 /\ checkAuthorization(authHeader, UPLOAD_TOKEN).status = 0
                 /\ fileExists(thumbs, thumbNameOf(basename(fileName,
                                                           toLowerCase(extname(fileName)))))
          /\ LET out == deleteHandler(originals, thumbs, authHeader, fileName,
                                      thumbRemovalFails)
             IN  /\ originals' = out.originals
                 /\ thumbs' = out.thumbs
                 /\ Respond([out.response EXCEPT !.fails = <<thumbRemovalFails>>])
    /\ UNCHANGED <<now, config>>

\* a direct call of storeImageFromBuffer
StoreBuffers == {PngImage, JpegImage, CorruptPng, TextFile, NotABuffer}
StoreNames ==
    { [originalName |-> <<"cat", ".png">>, forceBasename |-> NoName],
      [originalName |-> <<"cat", ".png">>, forceBasename |-> <<"f", ".png">>],
      [originalName |-> <<"f", ".jpg">>, forceBasename |-> <<"f", ".jpg">>],
      [originalName |-> <<"notes", ".txt">>, forceBasename |-> NoName],
      [originalName |-> NoName, forceBasename |-> NoName] }

StoreCall ==
    /\ nreq < MaxRequests
    /\ \E buffer \in StoreBuffers, names \in StoreNames, overwrite \in BOOLEAN,
          r \in 1..NumRandom, writeFails \in BOOLEAN :
          LET sourceName == IF names.forceBasename # NoName THEN names.forceBasename
                            ELSE names.originalName
              result == storeImageFromBuffer(originals, thumbs, buffer, names.originalName,
                                             names.forceBasename, overwrite, now, r, writeFails)
          IN  /\ reachesWrite(buffer, sourceName) \/ (r = 1 /\ ~writeFails)
              /\ originals' = result.originals
              /\ thumbs' = result.thumbs
              /\ Respond([NoRequest EXCEPT
                    !.op = "store", !.buffer = buffer,
                    !.originalName = names.originalName, !.name = names.forceBasename,
                    !.overwrite = overwrite, !.time = now,
                    !.rs = <<r>>, !.fails = <<writeFails>>,
                    !.error = result.error, !.threw = result.threw,
                    !.skipped = result.skipped,
                    !.items = IF result.threw \/ result.error # "" THEN << >>
                              ELSE <<[filename |-> result.filename, thumb |-> result.thumb]>>])
    /\ UNCHANGED <<now, config>>

\* the buffers isValidImageMagic is tried on: the headers of the accepted
\* formats and of a text file, each of them with one byte zeroed or with the
\* high bit of one byte flipped, and each of them cut short
HeaderBuffers ==
    {PngHeader, JpegHeader, Gif87aHeader, Gif89aHeader, WebpHeader, SubSeq(TextFile, 1, 12)}

MagicBuffers ==
    HeaderBuffers
    \cup {[b EXCEPT ![p] = v] : b \in HeaderBuffers, p \in 1..12, v \in {0}}
    \cup {[b EXCEPT ![p] = (b[p] + 128) % 256] : b \in HeaderBuffers, p \in 1..12}
    \cup {SubSeq(b, 1, k) : b \in HeaderBuffers, k \in 0..11}
    \cup {ShortPng, PngImage, JpegImage, CorruptPng, TextFile}

\* a direct call of isValidImageMagic
Validate ==
    /\ nreq = 0
    /\ \E buffer \in MagicBuffers :
          Respond([NoRequest EXCEPT !.op = "validate", !.buffer = buffer,
                                    !.success = isValidImageMagic(buffer)])
    /\ UNCHANGED <<originals, thumbs, now, config>>

\* a direct call of generateFilename
Generate ==
    /\ nreq = 0
    /\ \E ext \in VALID_EXTENSIONS, r \in 1..NumRandom :
          Respond([NoRequest EXCEPT !.op = "generate", !.ext = ext, !.time = now,
                                    !.rs = <<r>>, !.name = generateFilename(ext, now, r)])
    /\ UNCHANGED <<originals, thumbs, now, config>>

\* the values exif-parser gives a date field: none, a number of seconds (the
\* epoch, after it, before it), a Date, a string of the EXIF pattern that
\* Date.parse reads or does not read, and any other string
TagValues ==
    { NoTag, [kind |-> "num", v |-> 0], [kind |-> "num", v |-> 1], [kind |-> "num", v |-> -1],
      [kind |-> "date", v |-> 2500], [kind |-> "str", v |-> 3500],
      [kind |-> "nan", v |-> 0], [kind |-> "text", v |-> 0] }

\* one EXIF attempt of getDateInfoFor on the tags of a file
ResolveTags ==
    /\ nreq = 0
    /\ \E a \in TagValues, b \in TagValues, c \in TagValues, d \in TagValues :
          LET tags == [DateTimeOriginal |-> a, CreateDate |-> b,
                       ModifyDate |-> c, DateTimeDigitized |-> d]
              ts == firstDate(tags)
          IN  Respond([NoRequest EXCEPT !.op = "exif", !.tags = tags, !.ts = ts,
                                        !.dateMs = IF usable(ts) THEN ts ELSE null])
    /\ UNCHANGED <<originals, thumbs, now, config>>

\* the names storeImageFromBuffer is tried on: absent, without extension, and
\* with every accepted extension, an upper-case one and one that is not accepted
ProbeExtensions == VALID_EXTENSIONS \cup {".PNG", ".txt"}
ProbeNames(stem) == {NoName, <<stem>>} \cup {<<stem, ext>> : ext \in ProbeExtensions}

\* the buffers storeImageFromBuffer is tried on
ProbeBuffers ==
    HeaderBuffers \cup {NotABuffer, ShortPng, [PngHeader EXCEPT ![5] = 0]}

\* a direct call of storeImageFromBuffer on every pairing of names and buffers
StoreProbe ==
    /\ nreq = 0
    /\ \E buffer \in ProbeBuffers, originalName \in ProbeNames("photo"),
          forceBasename \in ProbeNames("forced") :
          LET result == storeImageFromBuffer(originals, thumbs, buffer, originalName,
                                             forceBasename, TRUE, now, 1, FALSE)
          IN  /\ originals' = result.originals
              /\ thumbs' = result.thumbs
              /\ Respond([NoRequest EXCEPT
                    !.op = "store", !.buffer = buffer,
                    !.originalName = originalName, !.name = forceBasename,
                    !.overwrite = TRUE, !.time = now,
                    !.rs = <<1>>, !.fails = <<FALSE>>,
                    !.error = result.error, !.threw = result.threw,
                    !.skipped = result.skipped,
                    !.items = IF result.threw \/ result.error # "" THEN << >>
                              ELSE <<[filename |-> result.filename, thumb |-> result.thumb]>>])
    /\ UNCHANGED <<now, config>>

\* what the file system answers to the resolutions of one listing request: no
\* failure at all in a small gallery, or an open that fails for the second
\* photo and a read and a stat that fail for the third
ScanRequests ==
    LET faulty == [openFails |-> {ScanName(2)}, readFails |-> {ScanName(3)},
                   statFails |-> {ScanName(3)}]
        sound == [openFails |-> {}, readFails |-> {}, statFails |-> {}]
    IN  IF Cardinality(DOMAIN originals) <= CONCURRENCY_LIMIT THEN {sound, faulty}
        ELSE {faulty}

\* the request arrives: readdir, the filter, and the start of the first batch
StartScan ==
    /\ scan.phase = "idle"
    /\ nreq = 0
    /\ \E request \in ScanRequests :
          LET files == someOrder(DOMAIN originals \cup {ThumbsDirEntry})
              listed == SelectSeq(files, isListed)
          IN  scan' = startBatch(
                  [NoScan EXCEPT !.phase = "resolving", !.meta = TRUE,
                                 !.readdir = files, !.listed = listed,
                                 !.openFails = request.openFails,
                                 !.readFails = request.readFails,
                                 !.statFails = request.statFails,
                                 !.pos = [k \in 1..Len(listed) |-> "waiting"],
                                 !.started = [k \in 1..Len(listed) |-> 0],
                                 !.results = [k \in 1..Len(listed) |-> nullValue]],
                  0)
    /\ UNCHANGED <<originals, thumbs, now, config, nreq, last, prev, calls, page>>

\* fs.promises.open settles: a handle, or the jump to catch (fileReadErr)
OpenDone ==
    /\ \E k \in DOMAIN scan.pos :
          /\ scan.pos[k] = "opening"
          /\ scan' = IF scan.listed[k] \in scan.openFails
                     THEN [scan EXCEPT !.pos[k] = "dating"]
                     ELSE [scan EXCEPT !.pos[k] = "reading",
                                       !.opened = @ \cup {k},
                                       !.handles = @ \cup {k}]
    /\ UNCHANGED <<originals, thumbs, now, config, nreq, last, prev, calls, page>>

\* fileHandle.read settles and the finally block closes the handle; the first
\* EXIF attempt follows without an await, and when it finds a date the
\* resolution returns
ReadDone ==
    /\ \E k \in DOMAIN scan.pos :
          /\ scan.pos[k] = "reading"
          /\ LET file == scan.listed[k]
                 readFailed == file \in scan.readFails
                 closed == [scan EXCEPT !.handles = closeHandle(@, k, readFailed)]
                 info == getDateInfoFor(originals, file, FALSE, FALSE)
             IN  scan' = IF ~readFailed /\ datedByPrefix(originals[file].bytes)
                         THEN [closed EXCEPT
                                 !.pos[k] = "done",
                                 !.results[k] = [file |-> file, dateMs |-> info.dateMs,
                                                 source |-> info.source]]
                         ELSE [closed EXCEPT !.pos[k] = "dating"]
    /\ UNCHANGED <<originals, thumbs, now, config, nreq, last, prev, calls, page>>

\* the rest of getDateInfoFor: the EXIF attempts, the stat, the return
DateDone ==
    /\ \E k \in DOMAIN scan.pos :
          /\ scan.pos[k] = "dating"
          /\ LET file == scan.listed[k]
                 info == getDateInfoFor(originals, file,
                                        file \in scan.openFails \cup scan.readFails,
                                        file \in scan.statFails)
             IN  scan' = [scan EXCEPT
                            !.pos[k] = "done",
                            !.results[k] = [file |-> file, dateMs |-> info.dateMs,
                                            source |-> info.source]]
    /\ UNCHANGED <<originals, thumbs, now, config, nreq, last, prev, calls, page>>

\* Promise.all settles: withDates.push(...batchResults) and the next turn of the loop
NextBatch ==
    /\ scan.phase = "resolving"
    /\ \A k \in batchIndexes(Len(scan.listed), scan.i) : scan.pos[k] = "done"
    /\ scan' = startBatch(
           [scan EXCEPT !.withDates =
               @ \o [j \in 1..Cardinality(batchIndexes(Len(scan.listed), scan.i)) |->
                        scan.results[scan.i + j]]],
           scan.i + CONCURRENCY_LIMIT)
    /\ UNCHANGED <<originals, thumbs, now, config, nreq, last, prev, calls, page>>

\* the sort, the thumbnail mapping and res.json
FinishScan ==
    /\ scan.phase = "sorting"
    /\ scan' = [scan EXCEPT !.phase = "responded"]
    /\ Answer(listHandler(originals, thumbs, scan.meta, scan.readdir,
                          scan.openFails \cup scan.readFails, scan.statFails, FALSE))
    /\ UNCHANGED <<originals, thumbs, now, config, calls, page>>

(***************************************************************************)
(* The gallery page (public/script.js).  null is NoName; an index into     *)
(* allImages counts from 0 as in the script.                               *)
(***************************************************************************)
\* `${null}` and CSS.escape(null)
NullName == <<"null">>

\* window.CSS.escape(photoToDelete) inside the attribute selector
cssEscape(name) == IF name = NoName THEN NullName ELSE name

closeConfirmModal(p) == [p EXCEPT !.photoToDelete = NoName, !.confirmOpen = FALSE]

closeImageModalFunc(p) == [p EXCEPT !.lightboxOpen = FALSE, !.modalImage = NoName]

showToast(p) == [p EXCEPT !.toast = TRUE, !.timers = @ \cup {"hideToast"}]

\* the call of loadGallery, up to its fetch
loadGallery(p) == [p EXCEPT !.loading = @ + 1]

\* imageModal is shown && currentImageIndex >= 0 && allImages[currentImageIndex]
\* && allImages[currentImageIndex].original === name
viewing(p, name) ==
    /\ p.lightboxOpen
    /\ p.currentImageIndex >= 0
    /\ p.currentImageIndex < Len(p.allImages)
    /\ p.allImages[p.currentImageIndex + 1] = name

\* the check on the lightbox and the reload, at the end of deletePhoto
checkAndReload(p) ==
    LET checked == IF viewing(p, p.photoToDelete) THEN closeImageModalFunc(p) ELSE p
    IN  loadGallery([checked EXCEPT
            !.report = [@ EXCEPT !.made = TRUE,
                                 !.compared = p.photoToDelete,
                                 !.wasViewing = viewing(p, p.sent),
                                 !.openAtReload = checked.lightboxOpen]])

\* the tokens typed into the upload form
PageTokens == {<< >>, UPLOAD_TOKEN, OtherFixtureToken}

\* the server is up and the page has just been opened: loadGallery is called
InitPage ==
    /\ \E disk \in DeleteDisks : originals = disk.originals /\ thumbs = disk.thumbs
    /\ config = [ENABLE_TEST_FIXTURES |-> FALSE, TEST_FIXTURE_TOKEN |-> UPLOAD_TOKEN]
    /\ now = 1
    /\ nreq = 0
    /\ last = NoRequest
    /\ prev = summary(NoRequest)
    /\ scan = NoScan
    /\ calls = NoCalls
    /\ page = loadGallery(NoPage)

\* the response to the fetch of loadGallery arrives and the gallery is rendered
GalleryLoaded ==
    /\ page.loading > 0
    /\ LET response == listHandler(originals, thumbs, TRUE,
                                   someOrder(DOMAIN originals \cup {ThumbsDirEntry}),
                                   {}, {}, FALSE)
           names == [i \in 1..Len(response.listing) |-> response.listing[i].original]
       IN  /\ Answer(response)
           /\ page' = [page EXCEPT !.loading = @ - 1, !.allImages = names,
                                   !.items = {names[i] : i \in 1..Len(names)}]
    /\ UNCHANGED <<originals, thumbs, now, config, scan, calls>>

\* a click on a photo: openImageModal
OpenImage ==
    /\ \E index \in 0..(Len(page.allImages) - 1) :
          page' = [page EXCEPT !.currentImageIndex = index,
                               !.modalImage = page.allImages[index + 1],
                               !.lightboxOpen = TRUE]
    /\ UNCHANGED <<originals, thumbs, now, config, nreq, last, prev, scan, calls>>

\* the right arrow: showNextImage
ShowNextImage ==
    /\ page.lightboxOpen
    /\ page.currentImageIndex < Len(page.allImages) - 1
    /\ page' = [page EXCEPT !.currentImageIndex = @ + 1,
                            !.modalImage = page.allImages[page.currentImageIndex + 2]]
    /\ UNCHANGED <<originals, thumbs, now, config, nreq, last, prev, scan, calls>>

\* the close button of the lightbox
CloseImage ==
    /\ page.lightboxOpen
    /\ page' = closeImageModalFunc(page)
    /\ UNCHANGED <<originals, thumbs, now, config, nreq, last, prev, scan, calls>>

\* a click on the delete button of a photo: showConfirmModal
ShowConfirm ==
    /\ \E filename \in page.items :
          page' = [page EXCEPT !.photoToDelete = filename, !.confirmOpen = TRUE]
    /\ UNCHANGED <<originals, thumbs, now, config, nreq, last, prev, scan, calls>>

\* the cancel button, Escape, or a click on the backdrop
CancelConfirm ==
    /\ page.confirmOpen
    /\ page' = closeConfirmModal(page)
    /\ UNCHANGED <<originals, thumbs, now, config, nreq, last, prev, scan, calls>>

\* the confirm button: deletePhoto up to its fetch
ClickConfirm ==
    /\ page.confirmOpen
    /\ page.deletes < MaxUploads
    /\ \E token \in PageTokens :
          page' = IF page.photoToDelete = NoName THEN page
                  ELSE IF token = << >> THEN closeConfirmModal(showToast(page))
                  ELSE [page EXCEPT !.deleting = TRUE, !.sent = page.photoToDelete,
                                    !.token = token, !.deletes = @ + 1]
    /\ UNCHANGED <<originals, thumbs, now, config, nreq, last, prev, scan, calls>>

\* the server handles the DELETE request and deletePhoto goes on to its end
DeleteSettles ==
    /\ page.deleting
    /\ \E thumbRemovalFails \in BOOLEAN :
          LET out == deleteHandler(originals, thumbs, Bearer \o page.token, page.sent,
                                   thumbRemovalFails)
              settled == [page EXCEPT !.deleting = FALSE]
              closed == closeConfirmModal(showToast(settled))
              looked == [closed EXCEPT !.report = [NoReport EXCEPT
                                          !.deleted = page.sent,
                                          !.lookup = cssEscape(closed.photoToDelete)]]
          IN  /\ thumbRemovalFails =>
                    fileExists(thumbs, thumbNameOf(basename(page.sent,
                                                   toLowerCase(extname(page.sent)))))
              /\ originals' = out.originals
              /\ thumbs' = out.thumbs
              /\ Answer(out.response)
              /\ page' = IF out.response.status # 200 THEN closed
                         ELSE IF cssEscape(closed.photoToDelete) \in closed.items
                         THEN [looked EXCEPT !.timers = @ \cup {"afterFade"}]
                         ELSE checkAndReload(looked)
    /\ UNCHANGED <<now, config, scan, calls>>

\* a setTimeout callback runs: the toast is hidden, or the faded item is gone
TimerFires ==
    /\ \E timer \in page.timers :
          LET rest == [page EXCEPT !.timers = @ \ {timer}]
          IN  page' = IF timer = "hideToast" THEN [rest EXCEPT !.toast = FALSE]
                      ELSE checkAndReload(rest)
    /\ UNCHANGED <<originals, thumbs, now, config, nreq, last, prev, scan, calls>>

(***************************************************************************)
(* storeImageFromBuffer step by step, for two calls that run at the same   *)
(* time: from one await to the next a call is "checking" (fileExists of    *)
(* the target), "writing" (fsp.writeFile), "checkingThumb" (fileExists of  *)
(* the thumbnail, in the skip branch) and "thumbing" (sharp's toFile).     *)
(***************************************************************************)
RaceBuffers == {PngImage, CorruptPng}
RaceNames == {<<"f", ".png">>, <<"fixture-red", ".png">>}

\* the call is made: the validation and the naming, up to the first await
StartStore ==
    /\ \E c \in DOMAIN calls, buffer \in RaceBuffers, forceBasename \in RaceNames,
          overwrite \in BOOLEAN :
          LET ext == toLowerCase(extname(forceBasename))
              targetName == Append(basename(forceBasename, ext), ext)
          IN  /\ calls[c].pos = "idle"
              /\ \A d \in DOMAIN calls : d < c => calls[d].pos # "idle"
              /\ calls' = [calls EXCEPT ![c] =
                    [NoCall EXCEPT !.pos = IF overwrite THEN "writing" ELSE "checking",
                                   !.buffer = buffer, !.forceBasename = forceBasename,
                                   !.targetName = targetName,
                                   !.thumbName = thumbNameOf(basename(targetName, ext)),
                                   !.absentAtStart = ~overwrite /\ ~fileExists(originals, targetName)]]
    /\ UNCHANGED <<originals, thumbs, now, config, nreq, last, prev, scan, page>>

\* if (await fileExists(destPath))
CheckTarget ==
    /\ \E c \in DOMAIN calls :
          /\ calls[c].pos = "checking"
          /\ calls' = IF fileExists(originals, calls[c].targetName)
                      THEN [calls EXCEPT ![c].pos = "checkingThumb", ![c].skipped = TRUE,
                                         ![c].presentAtCheck =
                                             calls[c].targetName \in DOMAIN originals]
                      ELSE [calls EXCEPT ![c].pos = "writing",
                                         ![c].presentAtCheck =
                                             calls[c].targetName \in DOMAIN originals]
    /\ UNCHANGED <<originals, thumbs, now, config, nreq, last, prev, scan, page>>

\* if (!(await fileExists(thumbPath))), and the return when the thumbnail is there
CheckThumb ==
    /\ \E c \in DOMAIN calls :
          /\ calls[c].pos = "checkingThumb"
          /\ calls' = IF fileExists(thumbs, calls[c].thumbName)
                      THEN [calls EXCEPT ![c].pos = "returned", ![c].returned = TRUE]
                      ELSE [calls EXCEPT ![c].pos = "thumbing"]
    /\ UNCHANGED <<originals, thumbs, now, config, nreq, last, prev, scan, page>>

\* await fsp.writeFile(destPath, buffer)
WriteOriginal ==
    /\ \E c \in DOMAIN calls :
          /\ calls[c].pos = "writing"
          /\ originals' = WriteFile(originals, calls[c].targetName, calls[c].buffer, now)
          /\ calls' = [calls EXCEPT ![c].pos = "thumbing"]
    /\ UNCHANGED <<thumbs, now, config, nreq, last, prev, scan, page>>

\* await sharp(buffer)...toFile(thumbPath) in its try block, and the return
MakeThumb ==
    /\ \E c \in DOMAIN calls :
          /\ calls[c].pos = "thumbing"
          /\ thumbs' = GenerateThumbnail(thumbs, calls[c].buffer, calls[c].thumbName, now)
          /\ calls' = [calls EXCEPT ![c].pos = "returned", ![c].returned = TRUE]
    /\ UNCHANGED <<originals, now, config, nreq, last, prev, scan, page>>

Tick ==
    /\ now < MaxClock
    /\ now' = now + 1
    /\ UNCHANGED <<originals, thumbs, config, nreq, last, prev, scan, calls, page>>

\* the server and its clients
Next ==
    \/ Upload
    \/ SeedFixtures
    \/ ListPhotos
    \/ ServeFile
    \/ ServeThumb
    \/ Tick

Spec == Init /\ [][Next]_vars

\* uploads and fixture seeding only
NextUpload ==
    \/ Upload
    \/ SeedFixtures
    \/ Tick

SpecUpload == Init /\ [][NextUpload]_vars

\* a gallery being filled and looked at
NextGallery ==
    \/ GalleryUpload
    \/ ListPhotos
    \/ ServeFile
    \/ ServeThumb
    \/ Tick

SpecGallery == InitWith({[ENABLE_TEST_FIXTURES |-> FALSE, TEST_FIXTURE_TOKEN |-> UPLOAD_TOKEN]})
               /\ [][NextGallery]_vars

\* images uploaded one at a time, and fixture seeding
NextSingle ==
    \/ SingleUpload
    \/ SeedFixtures
    \/ Tick

SpecSingle == Init /\ [][NextSingle]_vars

\* images deleted and the directory listed
NextDelete ==
    \/ DeletePhoto
    \/ ListPhotos
    \/ Tick

SpecDelete == InitDelete /\ [][NextDelete]_vars

\* a directory that is only listed
NextListing ==
    \/ ListPhotos
    \/ Tick

SpecListing == InitListing /\ [][NextListing]_vars

\* the helpers of the store called directly
NextHelpers ==
    \/ Validate
    \/ StoreProbe
    \/ Generate
    \/ ResolveTags
    \/ Tick

SpecHelpers == InitWith({[ENABLE_TEST_FIXTURES |-> FALSE, TEST_FIXTURE_TOKEN |-> UPLOAD_TOKEN]})
               /\ [][NextHelpers]_vars

\* storeImageFromBuffer called directly
NextScan ==
    \/ StartScan
    \/ OpenDone
    \/ ReadDone
    \/ DateDone
    \/ NextBatch
    \/ FinishScan

SpecScan == InitScan /\ [][NextScan]_vars

NextPage ==
    \/ GalleryLoaded
    \/ OpenImage
    \/ ShowNextImage
    \/ CloseImage
    \/ ShowConfirm
    \/ CancelConfirm
    \/ ClickConfirm
    \/ DeleteSettles
    \/ TimerFires

SpecPage == InitPage /\ [][NextPage]_vars

NextRace ==
    \/ StartStore
    \/ CheckTarget
    \/ CheckThumb
    \/ WriteOriginal
    \/ MakeThumb
    \/ Tick

SpecRace == InitWith({[ENABLE_TEST_FIXTURES |-> FALSE, TEST_FIXTURE_TOKEN |-> UPLOAD_TOKEN]})
            /\ [][NextRace]_vars

NextStore ==
    \/ StoreCall
    \/ Tick

SpecStore == InitWith({[ENABLE_TEST_FIXTURES |-> FALSE, TEST_FIXTURE_TOKEN |-> UPLOAD_TOKEN]})
             /\ [][NextStore]_vars

(***************************************************************************)
(* The properties.                                                         *)
(***************************************************************************)
\* the last call of storeImageFromBuffer returned an item
Returned(r) == r.error = "" /\ ~r.threw /\ Len(r.items) = 1

\* two calls of storeImageFromBuffer in succession, with the same buffer, the
\* same forced name and overwrite = false, the first of them returning an item
\* for a name that was absent
TwoImports ==
    /\ prev.op = "store" /\ last.op = "store"
    /\ prev.name # NoName /\ last.name = prev.name
    /\ last.buffer = prev.buffer
    /\ ~prev.overwrite /\ ~last.overwrite
    /\ Returned(prev)
    /\ ~fileExists(prev.before.originals, prev.items[1].filename)

\* C1: importing the same buffer twice under the same forced name with
\* overwrite = false, into a store where the name is absent, returns
\* skipped = false the first time and skipped = true the second time, and the
\* second call leaves the originals and the thumbnails as the first call left
\* them.
C1_IdempotentImport ==
    TwoImports =>
        /\ ~prev.skipped
        /\ Returned(last) /\ last.skipped
        /\ last.items[1].filename = prev.items[1].filename
        /\ originals = last.before.originals
        /\ thumbs = last.before.thumbs

C1_Witness ==
    /\ TwoImports
    /\ last.skipped
    /\ fileExists(originals, last.items[1].filename)
    /\ fileExists(thumbs, last.items[1].thumb)

\* the last request was an upload that passed the authorization check
AuthorizedUpload == last.op = "upload" /\ last.status # 401

\* file i of the last upload passed the gates of storeImageFromBuffer
PassesValidation(i) ==
    reachesWrite(last.files[i].buffer, last.files[i].originalname)

\* file i of the last upload passed the gates and its write did not throw
Written(i) == PassesValidation(i) /\ ~last.fails[i]

\* the name file i of the last upload was stored under
StoredName(i) ==
    generateFilename(toLowerCase(extname(last.files[i].originalname)), last.time, last.rs[i])

\* the number of items of the last response with the given filename
ItemsNamed(name) == Cardinality({k \in 1..Len(last.items) : last.items[k].filename = name})

\* C2: a file of an upload that passes the extension and magic-byte gates and
\* is written is reported as an item with its stored filename in a 200
\* response, and is on disk, whether or not its thumbnail could be generated.
C2_ThumbnailFailureNeverFailsStore ==
    AuthorizedUpload =>
        \A i \in 1..Len(last.files) :
            Written(i) =>
                /\ last.status = 200 /\ last.success
                /\ ItemsNamed(StoredName(i)) >= 1
                /\ fileExists(originals, StoredName(i))

\* an upload of one image that sharp cannot decode: stored, reported, no thumbnail
C2_Witness ==
    /\ AuthorizedUpload
    /\ Len(last.files) = 1 /\ Written(1)
    /\ ~SharpDecodes(last.files[1].buffer)
    /\ last.status = 200
    /\ last.items[1].filename = StoredName(1)
    /\ originals[StoredName(1)].bytes = last.files[1].buffer
    /\ ~fileExists(thumbs, last.items[1].thumb)

\* C3: an upload all of whose files are rejected by a gate of
\* storeImageFromBuffer leaves the originals and the thumbnails as they were,
\* and every original on disk has an accepted extension and content that passes
\* the magic-byte check.
C3_ValidationIsAHardGate ==
    /\ (AuthorizedUpload /\ \A i \in 1..Len(last.files) : ~PassesValidation(i)) =>
           /\ originals = last.before.originals
           /\ thumbs = last.before.thumbs
    /\ \A n \in DOMAIN originals :
           /\ toLowerCase(extname(n)) \in VALID_EXTENSIONS
           /\ isValidImageMagic(originals[n].bytes)

\* a text file named .png and a PNG named .txt, both rejected, nothing written
C3_Witness ==
    /\ AuthorizedUpload
    /\ Len(last.files) = 2
    /\ ~isValidImageMagic(last.files[1].buffer)
    /\ extname(last.files[2].originalname) \notin VALID_EXTENSIONS
    /\ last.status = 400 /\ Len(last.errors) = 2
    /\ originals = last.before.originals /\ DOMAIN originals # {}
    /\ thumbs = last.before.thumbs

\* the indices of the files of the last upload that were written, and of the others
WrittenFiles == SelectSeq([i \in 1..Len(last.files) |-> i], LAMBDA i : Written(i))
FailedFiles == SelectSeq([i \in 1..Len(last.files) |-> i], LAMBDA i : ~Written(i))

\* every file of the last upload has its one entry, in the order of the files
OneEntryPerFile ==
    /\ Len(last.items) + Len(last.errors) = Len(last.files)
    /\ [k \in 1..Len(last.items) |-> last.items[k].filename]
           = [k \in 1..Len(WrittenFiles) |-> StoredName(WrittenFiles[k])]
    /\ [k \in 1..Len(last.errors) |-> last.errors[k].original]
           = [k \in 1..Len(FailedFiles) |-> last.files[FailedFiles[k]].originalname]

C5_UploadStatus ==
    AuthorizedUpload =>
        /\ last.status = (IF Len(WrittenFiles) > 0 THEN 200 ELSE 400)
        /\ last.success = (Len(WrittenFiles) > 0)
        /\ Len(last.files) = 0 => last.error = "No file uploaded"
        /\ Len(WrittenFiles) > 0 =>
               /\ Len(last.items) = Len(WrittenFiles)
               /\ Len(last.errors) = Len(FailedFiles)

\* one file stored, one rejected: 200 with one item and one error
C5_Witness ==
    /\ AuthorizedUpload
    /\ Len(WrittenFiles) = 1 /\ Len(FailedFiles) = 1
    /\ last.status = 200 /\ last.success
    /\ Len(last.items) = 1 /\ Len(last.errors) = 1

\* the Authorization header carries the configured secret after "Bearer "
RightToken(authHeader) ==
    /\ Len(authHeader) >= Len(Bearer)
    /\ SubSeq(authHeader, 1, Len(Bearer)) = Bearer
    /\ SubSeq(authHeader, Len(Bearer) + 1, Len(authHeader)) = UPLOAD_TOKEN

\* C6: an upload whose Authorization header is absent, does not start with
\* "Bearer " or carries a token other than the secret is answered 401, with a
\* message naming the Authorization header when the header is absent, and
\* leaves the originals and the thumbnails untouched; only the exact secret is
\* accepted.
C6_UploadRequiresExactToken ==
    last.op = "upload" =>
        /\ last.status = 401 <=> ~RightToken(last.auth)
        /\ last.status = 401 =>
               /\ originals = last.before.originals
               /\ thumbs = last.before.thumbs
               /\ last.items = << >>
        /\ last.auth = NoHeader => last.error = "Missing or invalid Authorization header"

\* a proper prefix of the secret sent with a valid image: refused, nothing written
C6_Witness ==
    /\ last.op = "upload"
    /\ last.auth = Bearer \o SubSeq(UPLOAD_TOKEN, 1, Len(UPLOAD_TOKEN) - 1)
    /\ last.files = <<ValidPng>>
    /\ last.status = 401 /\ last.error = "Invalid token"
    /\ originals = last.before.originals
    /\ thumbs = last.before.thumbs

\* the resolved timestamp of an entry of a listing with metadata, 0 when unknown
TimestampOf(entry) == IF entry.date_taken = nullValue THEN 0 ELSE entry.date_taken[1]

\* the last request was GET /api/photos?meta=1
ListedWithMeta == last.op = "list" /\ last.meta /\ last.status = 200

\* C7: a listing with metadata is in descending order of resolved timestamp:
\* no entry is newer than the entry before it, and no entry of unknown date
\* (timestamp 0) stands before an entry of known date.
C7_ListingNewestFirst ==
    ListedWithMeta =>
        /\ \A i \in 1..(Len(last.listing) - 1) :
               TimestampOf(last.listing[i]) >= TimestampOf(last.listing[i + 1])
        /\ \A i, j \in 1..Len(last.listing) :
               (TimestampOf(last.listing[i]) = 0 /\ TimestampOf(last.listing[j]) # 0) => j < i

\* an EXIF date, an older modification time and an unknown date, in that order
C7_Witness ==
    /\ ListedWithMeta
    /\ Len(last.listing) = 3
    /\ last.listing[1].date_source = "exif"
    /\ last.listing[2].date_source = "mtime"
    /\ TimestampOf(last.listing[1]) > TimestampOf(last.listing[2])
    /\ last.listing[3].date_source = "unknown"
    /\ TimestampOf(last.listing[3]) = 0

\* the request of r asks for the thumbnail of an original that exists and
\* that has no thumbnail file under any of the names the handler looks for
MissingThumbnail(r) ==
    /\ r.op = "thumb"
    /\ toLowerCase(extname(r.name)) \in VALID_EXTENSIONS
    /\ fileExists(r.before.originals, r.name)
    /\ ~fileExists(r.before.thumbs, r.name)
    /\ ~fileExists(r.before.thumbs, thumbNameOf(basename(r.name, toLowerCase(extname(r.name)))))
    /\ ~fileExists(r.before.thumbs, legacyThumbNameOf(basename(r.name, toLowerCase(extname(r.name)))))

\* the name of the thumbnail generated for the last request
GeneratedName == thumbNameOf(basename(last.name, toLowerCase(extname(last.name))))

\* the last two requests asked for the thumbnail of the same original, and the
\* first of them generated it
ThumbnailRequestedAgain ==
    /\ MissingThumbnail(prev) /\ prev.generated
    /\ last.op = "thumb" /\ last.name = prev.name

ItemNames(r) == {r.items[k].filename : k \in 1..Len(r.items)}

\* the number of entries of the last listing whose original is name
EntriesFor(name) ==
    Cardinality({i \in 1..Len(last.listing) : last.listing[i].original = name})

\* C9: the filenames of the items of an upload answered 200 exist in the
\* originals directory; a listing with metadata that follows has exactly one
\* entry for each of them, and GET /files/<name> for each of them answers 200
\* with the stored bytes.
C9_ReadYourWrites ==
    /\ (last.op = "upload" /\ last.status = 200) =>
           /\ ItemNames(last) # {}
           /\ \A n \in ItemNames(last) : fileExists(originals, n)
    /\ (prev.op = "upload" /\ prev.status = 200 /\ ListedWithMeta) =>
           \A n \in ItemNames(prev) : EntriesFor(n) = 1
    /\ (prev.op = "upload" /\ prev.status = 200 /\ last.op = "file"
            /\ last.name \in ItemNames(prev)) =>
           /\ last.status = 200
           /\ last.served = originals[last.name].bytes
           /\ last.served # << >>

\* two images uploaded, then listed among the images that were there before
C9_Witness ==
    /\ prev.op = "upload" /\ prev.status = 200
    /\ Cardinality(ItemNames(prev)) = 2
    /\ ListedWithMeta
    /\ Len(last.listing) = 4
    /\ \A n \in ItemNames(prev) : EntriesFor(n) = 1

\* C10: no upload and no fixture seeding changes the bytes stored under the
\* name of an original that exists: every original on disk before the request
\* is on disk after it with the same bytes.
C10_StoredOriginalsImmutable ==
    last.op \in {"upload", "fixtures"} =>
        \A n \in DOMAIN last.before.originals :
            /\ fileExists(originals, n)
            /\ originals[n].bytes = last.before.originals[n].bytes

\* the signatures as the comments of isValidImageMagic state them
HasImageSignature(buffer) ==
    /\ Len(buffer) >= 12
    /\ \/ SubSeq(buffer, 1, 3) = <<255, 216, 255>>
       \/ SubSeq(buffer, 1, 8) = <<137, 80, 78, 71, 13, 10, 26, 10>>
       \/ SubSeq(buffer, 1, 6) \in {<<71, 73, 70, 56, 55, 97>>, <<71, 73, 70, 56, 57, 97>>}
       \/ /\ SubSeq(buffer, 1, 4) = <<82, 73, 70, 70>>
          /\ SubSeq(buffer, 9, 12) = <<87, 69, 66, 80>>

\* C11: isValidImageMagic returns true exactly for the buffers of at least 12
\* bytes that begin with FF D8 FF, with the 8-byte PNG signature, with GIF87a
\* or GIF89a, or with RIFF and WEBP at offset 8, and false for every other
\* buffer.
C11_MagicBytesExact ==
    last.op = "validate" => (last.success <=> HasImageSignature(last.buffer))

\* the format whose signature the buffer begins with
SignatureFormat(buffer) ==
    IF ~IsBuffer(buffer) \/ Len(buffer) < 12 THEN "none"
    ELSE IF SubSeq(buffer, 1, 3) = <<255, 216, 255>> THEN "jpeg"
    ELSE IF SubSeq(buffer, 1, 8) = <<137, 80, 78, 71, 13, 10, 26, 10>> THEN "png"
    ELSE IF SubSeq(buffer, 1, 6) \in {<<71, 73, 70, 56, 55, 97>>, <<71, 73, 70, 56, 57, 97>>}
    THEN "gif"
    ELSE IF SubSeq(buffer, 1, 4) = <<82, 73, 70, 70>> /\ SubSeq(buffer, 9, 12) = <<87, 69, 66, 80>>
    THEN "webp"
    ELSE "none"

\* the format an accepted extension stands for
ExtensionFormat(ext) ==
    CASE ext \in {".jpg", ".jpeg"} -> "jpeg"
      [] ext = ".png" -> "png"
      [] ext = ".gif" -> "gif"
      [] ext = ".webp" -> "webp"
      [] OTHER -> "none"

\* the extension the last call of storeImageFromBuffer went by
SourceExtension ==
    toLowerCase(extname(IF last.name # NoName THEN last.name
                        ELSE IF last.originalName # NoName THEN last.originalName
                        ELSE <<"upload">>))

\* the last call of storeImageFromBuffer had an accepted extension and a buffer
\* with the signature of another accepted format
MismatchedStore ==
    /\ last.op = "store"
    /\ SourceExtension \in VALID_EXTENSIONS
    /\ SignatureFormat(last.buffer) # "none"
    /\ SignatureFormat(last.buffer) # ExtensionFormat(SourceExtension)

\* C12 as stated: an accepted extension paired with a buffer that carries the
\* signature of a different accepted format is rejected by the store, and
\* nothing is written.
C12_AsStated ==
    MismatchedStore =>
        /\ last.error # ""
        /\ originals = last.before.originals
        /\ thumbs = last.before.thumbs

\* C12: the magic-byte check does not look at the extension: an accepted
\* extension paired with a buffer that carries the signature of any accepted
\* format, its own or another, passes validation, and the store writes the
\* buffer under a name with the given extension.
C12_SignatureOfAnyFormatAccepted ==
    (last.op = "store" /\ SourceExtension \in VALID_EXTENSIONS
        /\ SignatureFormat(last.buffer) # "none") =>
        /\ Returned(last)
        /\ extname(last.items[1].filename) = SourceExtension
        /\ fileExists(originals, last.items[1].filename)
        /\ originals[last.items[1].filename].bytes = last.buffer

\* JPEG bytes stored under a .png name
C12_Witness ==
    /\ MismatchedStore
    /\ SourceExtension = ".png" /\ SignatureFormat(last.buffer) = "jpeg"
    /\ Returned(last)
    /\ originals[last.items[1].filename].bytes = last.buffer

\* the names of a listing, in the order of the listing
NamesOf(response) ==
    IF response.meta THEN [i \in 1..Len(response.listing) |-> response.listing[i].original]
    ELSE response.listing

\* what the handler answers to the same request with the other value of meta,
\* the directory and the environment's answers being the same
OtherListing ==
    listHandler(last.before.originals, last.before.thumbs, ~last.meta,
                last.readdir, last.openFails, last.statFails, FALSE)

\* C13: a listing without metadata is the sequence of names of the listing
\* with metadata of the same directory: the same files in the same newest-first
\* order.
C13_NamesInListingOrder ==
    last.op = "list" =>
        /\ NamesOf(last) = NamesOf(OtherListing)
        /\ ~last.meta => \A i \in 1..Len(last.listing) :
                             last.listing[i] = OtherListing.listing[i].original

\* names only, and the directory order is not the order of the dates
C13_Witness ==
    /\ last.op = "list" /\ ~last.meta /\ last.status = 200
    /\ Len(last.listing) = 3
    /\ last.listing # SelectSeq(last.readdir, isListed)
    /\ TimestampOf(OtherListing.listing[1]) > TimestampOf(OtherListing.listing[2])
    /\ TimestampOf(OtherListing.listing[2]) > TimestampOf(OtherListing.listing[3])
    /\ NamesOf(last) = NamesOf(OtherListing)

\* the entries of the originals directory with an accepted extension
Catalogue(dir) == {n \in DOMAIN dir : toLowerCase(extname(n)) \in VALID_EXTENSIONS}

\* the set of names of the last listing
ListedNames == {NamesOf(last)[i] : i \in 1..Len(NamesOf(last))}

\* C14: a listing has one entry for each file of the originals directory whose
\* lower-cased extension is accepted and no other entry, neither the thumbs
\* subdirectory nor a thumbnail; it is a function of the directory as it is,
\* so the empty directory lists as the empty sequence.
C14_ListingIsTheCatalogue ==
    last.op = "list" =>
        /\ last.status = 200
        /\ ListedNames = Catalogue(originals)
        /\ Len(NamesOf(last)) = Cardinality(Catalogue(originals))
        /\ ThumbsDirEntry \notin ListedNames
        /\ ListedNames \cap DOMAIN thumbs = {}
        /\ DOMAIN originals = {} => last.listing = << >>

\* a directory with a file that is no image and a file with an upper-case extension
C14_Witness ==
    /\ last.op = "list" /\ last.meta
    /\ StrayFile \in DOMAIN originals /\ StrayFile \notin ListedNames
    /\ CameraOriginal \in ListedNames
    /\ DOMAIN thumbs # {}
    /\ Len(last.listing) = 4

\* the capture date in the EXIF data of a buffer, in either place, 0 for none
ExifDateOf(buffer) ==
    IF buffer = JpegImage THEN 1000
    ELSE IF buffer = JpegLateExif THEN 2000
    ELSE 0

\* what the fallback chain yields for a file of the listed directory; the
\* listing shows a timestamp 0 as no date
ResolvedDate(file) ==
    LET stored == last.before.originals[file]
    IN  IF file \notin last.openFails /\ ExifDateOf(stored.bytes) # 0
        THEN [date_taken |-> <<ExifDateOf(stored.bytes)>>, date_source |-> "exif"]
        ELSE IF file \notin last.statFails
        THEN [date_taken |-> IF stored.mtime # 0 THEN <<stored.mtime>> ELSE nullValue,
              date_source |-> "mtime"]
        ELSE [date_taken |-> nullValue, date_source |-> "unknown"]

\* C19: a listing is answered whatever happens to its files, and each entry
\* carries the EXIF date with source exif when the file can be read and either
\* EXIF attempt yields a date, otherwise the modification time with source
\* mtime when the file can be stat'ed, otherwise no date with source unknown.
C19_DateFallbackChain ==
    last.op = "list" =>
        /\ last.status = 200
        /\ last.meta =>
               \A i \in 1..Len(last.listing) :
                   /\ last.listing[i].date_taken
                          = ResolvedDate(last.listing[i].original).date_taken
                   /\ last.listing[i].date_source
                          = ResolvedDate(last.listing[i].original).date_source

\* a date from the image library's metadata, a modification time, and a file
\* that can neither be read nor stat'ed
C19_Witness ==
    /\ last.op = "list" /\ last.meta /\ last.status = 200
    /\ \E i, j, k \in 1..Len(last.listing) :
          /\ last.listing[i].original = CameraOriginal
          /\ last.listing[i].date_source = "exif"
          /\ last.listing[i].date_taken = <<2000>>
          /\ last.listing[j].date_source = "mtime"
          /\ last.listing[k].date_source = "unknown"
          /\ last.listing[k].original \in last.openFails \cap last.statFails

\* the names of the fixtures and of their thumbnails
FixtureNames == {TEST_FIXTURES[i].filename : i \in 1..Len(TEST_FIXTURES)}
FixtureThumbNames ==
    {thumbNameOf(basename(TEST_FIXTURES[i].filename, ".png")) : i \in 1..Len(TEST_FIXTURES)}

\* the last request kept every file that was on disk as it was
NothingRewritten ==
    /\ \A n \in DOMAIN last.before.originals :
           fileExists(originals, n) /\ originals[n] = last.before.originals[n]
    /\ \A n \in DOMAIN last.before.thumbs :
           fileExists(thumbs, n) /\ thumbs[n] = last.before.thumbs[n]

AuthorizedDelete == last.op = "delete" /\ RightToken(last.auth)

\* C16: an authorised DELETE removes the original and reports photo_deleted,
\* whether its thumbnail was removed, was missing or could not be removed, and
\* reports thumbnail_deleted accordingly; the original is in no listing that
\* follows; a DELETE without the right token removes nothing.
C16_DeleteIsBestEffort ==
    /\ AuthorizedDelete =>
           /\ last.status = 200 /\ last.photo_deleted
           /\ ~fileExists(originals, last.name)
           /\ \A n \in DOMAIN last.before.originals \ {last.name} :
                  fileExists(originals, n) /\ originals[n] = last.before.originals[n]
           /\ last.thumbnail_deleted <=> thumbs # last.before.thumbs
           /\ last.thumbnail_deleted => thumbs = RemoveFile(last.before.thumbs,
                  thumbNameOf(basename(last.name, toLowerCase(extname(last.name)))))
    /\ (last.op = "delete" /\ ~RightToken(last.auth)) =>
           /\ last.status = 401 /\ ~last.photo_deleted
           /\ originals = last.before.originals /\ thumbs = last.before.thumbs
    /\ (prev.op = "delete" /\ prev.status = 200 /\ last.op = "list") =>
           prev.name \notin ListedNames

\* the thumbnail could not be removed, the original is gone from the listing
C16_Witness ==
    /\ prev.op = "delete" /\ prev.status = 200 /\ prev.name = UploadedOriginal
    /\ last.op = "list" /\ last.meta
    /\ ~fileExists(originals, UploadedOriginal)
    /\ fileExists(thumbs, thumbNameOf(basename(UploadedOriginal, ".png")))
    /\ UploadedOriginal \notin ListedNames
    /\ Len(last.listing) = 1

\* what the upload endpoint answers when the last request is sent with
\* another Authorization header: status and body
AnswerTo(authHeader) ==
    LET response == uploadHandler(last.before.originals, last.before.thumbs, authHeader,
                                  last.files, last.time, last.rs, last.fails).response
    IN  [status |-> response.status, error |-> response.error,
         success |-> response.success, items |-> response.items, errors |-> response.errors]

\* the headers the upload endpoint refuses
RefusedHeaders == {a \in AuthHeaders : ~RightToken(a)}

\* the header is a Bearer header
IsBearer(authHeader) ==
    Len(authHeader) >= Len(Bearer) /\ SubSeq(authHeader, 1, Len(Bearer)) = Bearer

\* C17 as stated: the upload endpoint answers every refused request alike,
\* whether the header is missing, is no Bearer header or carries another token.
C17_AsStated ==
    (last.op = "upload" /\ last.status = 401) =>
        \A a \in RefusedHeaders : AnswerTo(a) = AnswerTo(last.auth)

\* C17: the upload endpoint answers every refused request with status 401; the
\* body is the same for a missing header and for a header that is no Bearer
\* header ("Missing or invalid Authorization header"), and another one, the
\* same for every wrong token, for a Bearer header whose token does not match
\* ("Invalid token").
C17_RefusalTellsHeaderFromToken ==
    (last.op = "upload" /\ last.status = 401) =>
        /\ last.error = (IF IsBearer(last.auth) THEN "Invalid token"
                         ELSE "Missing or invalid Authorization header")
        /\ \A a \in RefusedHeaders :
               /\ AnswerTo(a).status = 401
               /\ IsBearer(a) = IsBearer(last.auth) <=> AnswerTo(a) = AnswerTo(last.auth)

\* a wrong token is told "Invalid token", a missing header something else
C17_Witness ==
    /\ last.op = "upload" /\ last.status = 401
    /\ last.auth = Bearer \o OtherFixtureToken
    /\ last.error = "Invalid token"
    /\ AnswerTo(NoHeader).status = 401
    /\ AnswerTo(NoHeader).error # last.error
    /\ AnswerTo(Basic \o UPLOAD_TOKEN) = AnswerTo(NoHeader)

C20_NameHasWholeSecondTimestamp ==
    last.op = "generate" =>
        /\ Len(last.name) = 2 /\ last.name[2] = last.ext
        /\ Len(toHex(randomBytes(last.rs[1]))) = 12
        /\ last.name[1] = wholeSeconds(last.time) \o "_" \o join(toHex(randomBytes(last.rs[1])))
        /\ Len(last.name[1]) = 14 + 1 + 12

\* the last call of storeImageFromBuffer had overwrite = false and returned an
\* item
GuardedStore == last.op = "store" /\ ~last.overwrite /\ Returned(last)

\* every file of the directory now, except the one named, is as it was in before
OthersUntouched(now_dir, before_dir, name) ==
    /\ DOMAIN now_dir \ {name} = DOMAIN before_dir \ {name}
    /\ \A n \in DOMAIN before_dir \ {name} : now_dir[n] = before_dir[n]

\* C21: with overwrite = false, a store whose target exists leaves the
\* original as it was even when the buffer differs, writes <base>.thumb.jpg
\* only if it was missing, leaves an existing thumbnail as it was and returns
\* skipped = true; a store whose target does not exist writes the original and
\* returns skipped = false.
C21_SkipBranch ==
    GuardedStore =>
        LET target == last.items[1].filename
            thumb == last.items[1].thumb
        IN  /\ thumb = thumbNameOf(basename(target, extname(target)))
            /\ OthersUntouched(thumbs, last.before.thumbs, thumb)
            /\ IF fileExists(last.before.originals, target)
               THEN /\ last.skipped
                    /\ originals = last.before.originals
                    /\ fileExists(last.before.thumbs, thumb) => thumbs = last.before.thumbs
                    /\ (~fileExists(last.before.thumbs, thumb) /\ SharpDecodes(last.buffer))
                           => fileExists(thumbs, thumb)
               ELSE /\ ~last.skipped
                    /\ fileExists(originals, target)
                    /\ originals[target].bytes = last.buffer
                    /\ OthersUntouched(originals, last.before.originals, target)

\* a skip with a buffer that differs from the stored bytes, which produced the
\* thumbnail that was missing
C21_Witness ==
    /\ GuardedStore
    /\ last.skipped
    /\ originals[last.items[1].filename].bytes # last.buffer
    /\ ~fileExists(last.before.thumbs, last.items[1].thumb)
    /\ fileExists(thumbs, last.items[1].thumb)

\* the resolutions of the listing request that have started and not returned
InFlight == {k \in DOMAIN scan.pos : scan.pos[k] \in {"opening", "reading", "dating"}}

\* the batch a position of originals belongs to
BatchOf(k) == (k - 1) \div CONCURRENCY_LIMIT

\* C22: the resolutions of one listing request run in batches of 10: at most
\* 10 are in flight, none of a later batch starts before every one of the
\* earlier batches has returned, every original is resolved exactly once, and
\* the request goes on to its response whatever the number of originals.
C22_BatchesOfTen ==
    scan.phase # "idle" =>
        /\ Cardinality(InFlight) <= 10
        /\ \A k \in DOMAIN scan.pos :
              /\ scan.started[k] = (IF scan.pos[k] = "waiting" THEN 0 ELSE 1)
              /\ \A j \in DOMAIN scan.pos :
                    (scan.pos[k] # "waiting" /\ BatchOf(j) < BatchOf(k)) => scan.pos[j] = "done"
        /\ scan.phase \in {"sorting", "responded"} =>
              /\ \A k \in DOMAIN scan.pos : scan.pos[k] = "done"
              /\ Len(scan.withDates) = Len(scan.listed)
              /\ \A k \in DOMAIN scan.pos : scan.withDates[k].file = scan.listed[k]
        /\ scan.phase = "responded" =>
              /\ last.op = "list" /\ last.status = 200
              /\ Len(last.listing) = Len(scan.listed)
              /\ {last.listing[k].original : k \in 1..Len(last.listing)} =
                     {scan.listed[k] : k \in 1..Len(scan.listed)}
        /\ (scan.phase = "resolving" /\ InFlight = {}) =>
              \A k \in DOMAIN scan.pos :
                 BatchOf(k) = scan.i \div CONCURRENCY_LIMIT => scan.pos[k] = "done"

\* a gallery of more than 10 originals has been listed, the second batch
\* after the first
C22_Witness ==
    /\ scan.phase = "responded"
    /\ Len(scan.listed) > CONCURRENCY_LIMIT
    /\ scan.i > CONCURRENCY_LIMIT
    /\ last.status = 200

\* C29: a file handle opened by a resolution is closed before the resolution
\* parses the metadata or returns, whether the read succeeded or failed, and
\* no handle is open once the batch has completed.
C29_HandlesClosed ==
    /\ scan.handles \subseteq scan.opened
    /\ \A k \in DOMAIN scan.pos :
          /\ k \in scan.handles => scan.pos[k] = "reading"
          /\ scan.pos[k] = "reading" => k \in scan.opened
    /\ (\A k \in DOMAIN scan.pos : scan.pos[k] \in {"waiting", "done"}) => scan.handles = {}
    /\ scan.phase \in {"sorting", "responded"} => scan.handles = {}

\* a resolution whose read failed after its handle was opened has returned,
\* next to one whose read succeeded, and no handle is open
C29_Witness ==
    /\ \E k \in scan.opened :
          scan.listed[k] \in scan.readFails /\ scan.pos[k] = "done"
    /\ \E k \in scan.opened :
          scan.listed[k] \notin scan.readFails /\ scan.pos[k] = "done"
    /\ scan.handles = {}

\* the last request was a listing with metadata, and it succeeded
ListedThumbs == last.op = "list" /\ last.meta /\ last.status = 200

\* the names the listing could read from the thumbnails directory
ReadableThumbs == IF last.fails = <<TRUE>> THEN {} ELSE DOMAIN last.before.thumbs

\* the name of an original without its extension, as the listing takes it
BaseOf(file) == basename(file, toLowerCase(extname(file)))

\* C23: for every original of the listing the thumb is <base>.thumb.jpg if
\* the thumbnails directory has that name, otherwise the legacy <base>.jpg if
\* it has that one, otherwise null; when the thumbnails directory cannot be
\* read every thumb is null and the listing still succeeds.
C23_ThumbLookupOrder ==
    (last.op = "list" /\ last.meta) =>
        /\ last.status = 200
        /\ \A i \in 1..Len(last.listing) :
              LET e == last.listing[i]
                  new == BaseOf(e.original) \o <<".thumb", ".jpg">>
                  legacy == BaseOf(e.original) \o <<".jpg">>
              IN  /\ new \in ReadableThumbs => e.thumb = new
                  /\ (new \notin ReadableThumbs /\ legacy \in ReadableThumbs) => e.thumb = legacy
                  /\ (new \notin ReadableThumbs /\ legacy \notin ReadableThumbs)
                        => e.thumb = nullValue
                  /\ last.fails = <<TRUE>> => e.thumb = nullValue

\* one listing with an original that has both thumbnails, one that has the
\* legacy thumbnail only and one that has none
C23_Witness ==
    /\ ListedThumbs
    /\ \E i, j, k \in 1..Len(last.listing) :
          /\ last.listing[i].thumb = BaseOf(last.listing[i].original) \o <<".thumb", ".jpg">>
          /\ BaseOf(last.listing[i].original) \o <<".jpg">> \in DOMAIN thumbs
          /\ last.listing[j].thumb = BaseOf(last.listing[j].original) \o <<".jpg">>
          /\ last.listing[k].thumb = nullValue

\* a file name without its extension
WithoutExtension(name) == SubSeq(name, 1, Len(name) - 1)

\* the thumbnails the last request created
CreatedThumbs ==
    IF last.op = "none" THEN {} ELSE DOMAIN thumbs \ DOMAIN last.before.thumbs

FieldsInOrder ==
    <<last.tags.DateTimeOriginal, last.tags.CreateDate,
      last.tags.ModifyDate, last.tags.DateTimeDigitized>>

\* a field that is present and can be read as a timestamp, and that timestamp
Populated(tag) == tag.kind \in {"num", "date", "str"}
Millis(tag) == IF tag.kind = "num" THEN tag.v * 1000 ELSE tag.v

\* the first field of the order that satisfies P, 0 when none does
FirstField(P(_)) ==
    IF \E i \in 1..4 : P(FieldsInOrder[i])
    THEN CHOOSE i \in 1..4 :
            P(FieldsInOrder[i]) /\ \A j \in 1..(i - 1) : ~P(FieldsInOrder[j])
    ELSE 0

\* C25 as stated: the EXIF timestamp is the value of the first of
\* DateTimeOriginal, CreateDate, ModifyDate, DateTimeDigitized that is
\* populated; a populated earlier field is never overridden by a later one.
C25_AsStated ==
    (last.op = "exif" /\ FirstField(Populated) # 0) =>
        last.ts = Millis(FieldsInOrder[FirstField(Populated)])

\* a field whose timestamp is not zero
NonZero(tag) == Populated(tag) /\ Millis(tag) # 0

\* C25: the loop over DateTimeOriginal, CreateDate, ModifyDate,
\* DateTimeDigitized stops at the first field whose timestamp is not zero: that
\* value is never overridden by a later field, and it is the EXIF date if it is
\* greater than 0; a field that is absent, unparsable or zero is passed over,
\* and with no field left the attempt resolves no date.
C25_FirstNonZeroFieldWins ==
    last.op = "exif" =>
        IF FirstField(NonZero) # 0
        THEN /\ last.ts = Millis(FieldsInOrder[FirstField(NonZero)])
             /\ last.dateMs = (IF last.ts > 0 THEN last.ts ELSE null)
        ELSE last.dateMs = null

\* a later field was used although an earlier one holds the epoch, and an
\* earlier one is unparsable
C25_Witness ==
    /\ last.op = "exif"
    /\ last.tags.DateTimeOriginal.kind = "nan"
    /\ last.tags.CreateDate = [kind |-> "num", v |-> 0]
    /\ last.tags.ModifyDate = [kind |-> "str", v |-> 3500]
    /\ Populated(last.tags.DateTimeDigitized)
    /\ last.dateMs = 3500

\* two calls with the same forced name, the same buffer and overwrite = false,
\* both made while the target was absent, have both returned
RacedImports ==
    /\ calls[1].returned /\ calls[2].returned
    /\ calls[1].absentAtStart /\ calls[2].absentAtStart
    /\ calls[1].forceBasename = calls[2].forceBasename
    /\ calls[1].buffer = calls[2].buffer

\* C26 as stated: after two concurrent imports of the same buffer under the
\* same name the original holds the buffer, and exactly one of the two calls
\* reports skipped = false while the other reports skipped = true.
C26_AsStated ==
    RacedImports =>
        /\ originals[calls[1].targetName].bytes = calls[1].buffer
        /\ calls[1].skipped # calls[2].skipped

\* C26: after two concurrent imports of the same buffer under the same name
\* the original holds the buffer, its thumbnail if there is one is the one of
\* the buffer, and a call reports skipped = true exactly when the target was
\* there at its check: at least one of the two reports skipped = false, and
\* both do when each of them checked the target before the other wrote it.
C26_RaceIsHarmless ==
    RacedImports =>
        /\ calls[1].targetName \in DOMAIN originals
        /\ originals[calls[1].targetName].bytes = calls[1].buffer
        /\ calls[1].thumbName \in DOMAIN thumbs =>
              thumbs[calls[1].thumbName].bytes = SharpThumbnail(calls[1].buffer)
        /\ SharpDecodes(calls[1].buffer) => calls[1].thumbName \in DOMAIN thumbs
        /\ \A c \in DOMAIN calls : calls[c].skipped = calls[c].presentAtCheck
        /\ ~calls[1].skipped \/ ~calls[2].skipped

\* both calls found the target absent and both wrote it
C26_Witness ==
    /\ RacedImports
    /\ ~calls[1].skipped /\ ~calls[2].skipped
    /\ originals[calls[1].targetName].bytes = calls[1].buffer

\* the images among the files of the originals directory
StoredImages == {o \in DOMAIN originals : isListed(o)}

\* C27: two distinct originals never map to the same thumbnail name, so the
\* thumbnail written or returned for one original is never that of another,
\* originals that share a base name with different extensions included.
C27_ThumbnailNamesDistinct ==
    \A a \in StoredImages, b \in StoredImages :
        a # b => BaseOf(a) \o <<".thumb", ".jpg">> # BaseOf(b) \o <<".thumb", ".jpg">>

\* C28: in every entry of a listing with metadata date_taken is null exactly
\* when date_source is "unknown": an entry whose source is "exif" or "mtime"
\* carries a date, and the date of an entry whose source is "exif" is after
\* the epoch.
C28_NullDateIffUnknown ==
    (last.op = "list" /\ last.meta /\ last.status = 200) =>
        \A i \in 1..Len(last.listing) :
            LET e == last.listing[i]
            IN  /\ e.date_source \in {"exif", "mtime", "unknown"}
                /\ (e.date_taken = nullValue) <=> (e.date_source = "unknown")
                /\ e.date_source = "exif" => (e.date_taken # nullValue /\ e.date_taken[1] > 0)

\* C30: after a DELETE request that succeeds while the lightbox shows the
\* photo that was deleted, the lightbox is closed before the gallery is
\* reloaded, and the file name used to find the gallery item and to compare
\* with the image shown is the name of the photo that was deleted.
C30_LightboxClosedBeforeReload ==
    (page.report.made /\ page.report.wasViewing) =>
        /\ ~page.report.openAtReload
        /\ page.report.lookup = page.report.deleted
        /\ page.report.compared = page.report.deleted

====
